---- MODULE Spec2Model ----
(***************************************************************************)
(* Model of the kiro.rs protocol gateway.                                  *)
(*                                                                         *)
(*  - anthropic/stream.rs : SseStateManager and StreamContext, the SSE     *)
(*    state machine and the <thinking> extractor (SpecStream).             *)
(*  - anthropic/converter.rs : convert_request and its helpers             *)
(*    (SpecConv).                                                          *)
(*                                                                         *)
(* Text is modelled as a sequence of bytes, each byte a string: an ASCII   *)
(* byte is the one-character string, the two bytes of the UTF-8 encoding   *)
(* of U+00E9 are "C3" and "A9", and the three of U+20AC are "E2", "82" and *)
(* "AC".  Option<T> is modelled with a sentinel (NoIndex, NoReason) or     *)
(* with a sequence of length 0 or 1.                                       *)
(***************************************************************************)
EXTENDS Integers, Sequences, FiniteSets, TLC

\* ---------------------------------------------------------------- bounds

\* Number of upstream events fed to process_kiro_event in one response.
MaxEvents == 3

\* ------------------------------------------------------------ byte strings

TAG_START == <<"<", "t", "h", "i", "n", "k", "i", "n", "g", ">">>

TAG_END == <<"<", "/", "t", "h", "i", "n", "k", "i", "n", "g", ">">>

TAG_END_NL == TAG_END \o <<"\n", "\n">>

QUOTE_CHARS ==
    {"`", "\"", "'", "\\", "#", "!", "@", "$", "%", "^", "&", "*", "(", ")", "-",
     "_", "=", "+", "[", "]", "{", "}", ";", ":", "<", ">", ",", ".", "?", "/"}

\* A UTF-8 continuation byte (10xxxxxx): not the first byte of a character.
IsContinuationByte(b) == b \in {"A9", "82", "AC"}

\* char::is_whitespace on the characters of the model's alphabet (str::trim).
IsWhitespace(b) == b \in {" ", "\n", "\t", "\r"}

\* Option<usize>::None and Option<i32>::None.
NoIndex == -1

\* Option<String>::None of stop_reason.
NoReason == "none"

\* s[from..] with a 0-based byte offset.
SliceFrom(s, from) == SubSeq(s, from + 1, Len(s))

\* s[..to] with a 0-based byte offset.
SliceTo(s, to) == SubSeq(s, 1, to)

\* str::is_char_boundary.
is_char_boundary(s, pos) ==
    \/ pos = 0
    \/ pos = Len(s)
    \/ (pos < Len(s) /\ ~IsContinuationByte(s[pos + 1]))

RECURSIVE BoundaryAtOrBefore(_, _)
BoundaryAtOrBefore(s, pos) ==
    IF pos > 0 /\ ~is_char_boundary(s, pos)
    THEN BoundaryAtOrBefore(s, pos - 1)
    ELSE pos

\* The target taken as it is, without the search for a boundary.
MutTargetAsBoundary(s, target) == IF target >= Len(s) THEN Len(s) ELSE target

find_char_boundary(s, target) ==
    IF target >= Len(s) THEN Len(s)
    ELSE IF target = 0 THEN 0
    ELSE BoundaryAtOrBefore(s, target)

\* usize::saturating_sub.
saturating_sub(a, b) == IF a >= b THEN a - b ELSE 0

\* str::find from a 0-based offset: the absolute 0-based position, or NoIndex.
FindFrom(buffer, tag, search_start) ==
    LET hits == {i \in search_start .. (Len(buffer) - Len(tag)) :
                    SubSeq(buffer, i + 1, i + Len(tag)) = tag}
    IN IF hits = {} THEN NoIndex
       ELSE CHOOSE i \in hits : \A j \in hits : i <= j

starts_with(s, prefix) ==
    Len(s) >= Len(prefix) /\ SubSeq(s, 1, Len(prefix)) = prefix

\* str::trim().is_empty()
IsBlank(s) == \A i \in 1 .. Len(s) : IsWhitespace(s[i])

RECURSIVE trim_start(_)
trim_start(s) ==
    IF s # <<>> /\ IsWhitespace(s[1]) THEN trim_start(Tail(s)) ELSE s

is_quote_char(buffer, pos) ==
    pos >= 0 /\ pos < Len(buffer) /\ buffer[pos + 1] \in QUOTE_CHARS

RECURSIVE FindEndTagFrom(_, _)
FindEndTagFrom(buffer, search_start) ==
    LET absolute_pos == FindFrom(buffer, TAG_END, search_start)
        after_pos == absolute_pos + Len(TAG_END)
        has_quote_before == absolute_pos > 0 /\ is_quote_char(buffer, absolute_pos - 1)
        has_quote_after == is_quote_char(buffer, after_pos)
    IN IF absolute_pos = NoIndex THEN NoIndex
       ELSE IF has_quote_before \/ has_quote_after
            THEN FindEndTagFrom(buffer, absolute_pos + 1)
       ELSE IF Len(buffer) - after_pos < 2 THEN NoIndex
       ELSE IF starts_with(SliceFrom(buffer, after_pos), <<"\n", "\n">>)
            THEN absolute_pos
       ELSE FindEndTagFrom(buffer, absolute_pos + 1)

find_real_thinking_end_tag(buffer) == FindEndTagFrom(buffer, 0)

RECURSIVE FindEndTagAtBufferEndFrom(_, _)
FindEndTagAtBufferEndFrom(buffer, search_start) ==
    LET absolute_pos == FindFrom(buffer, TAG_END, search_start)
        after_pos == absolute_pos + Len(TAG_END)
        has_quote_before == absolute_pos > 0 /\ is_quote_char(buffer, absolute_pos - 1)
        has_quote_after == is_quote_char(buffer, after_pos)
    IN IF absolute_pos = NoIndex THEN NoIndex
       ELSE IF has_quote_before \/ has_quote_after
            THEN FindEndTagAtBufferEndFrom(buffer, absolute_pos + 1)
       ELSE IF IsBlank(SliceFrom(buffer, after_pos)) THEN absolute_pos
       ELSE FindEndTagAtBufferEndFrom(buffer, absolute_pos + 1)

find_real_thinking_end_tag_at_buffer_end(buffer) ==
    FindEndTagAtBufferEndFrom(buffer, 0)

RECURSIVE FindStartTagFrom(_, _)
FindStartTagFrom(buffer, search_start) ==
    LET absolute_pos == FindFrom(buffer, TAG_START, search_start)
        after_pos == absolute_pos + Len(TAG_START)
        has_quote_before == absolute_pos > 0 /\ is_quote_char(buffer, absolute_pos - 1)
        has_quote_after == is_quote_char(buffer, after_pos)
    IN IF absolute_pos = NoIndex THEN NoIndex
       ELSE IF ~has_quote_before /\ ~has_quote_after THEN absolute_pos
       ELSE FindStartTagFrom(buffer, absolute_pos + 1)

find_real_thinking_start_tag(buffer) == FindStartTagFrom(buffer, 0)

\* Number of characters (not bytes) of a text.
CharCount(s) == Cardinality({i \in 1 .. Len(s) : ~IsContinuationByte(s[i])})

\* The alphabet holds no CJK character, so chinese_count is 0.
estimate_tokens(text) ==
    LET chinese_tokens == (0 * 2 + 2) \div 3
        other_tokens == (CharCount(text) + 3) \div 4
        total == chinese_tokens + other_tokens
    IN IF total < 1 THEN 1 ELSE total

\* ------------------------------------------------------------ SSE events

(***************************************************************************)
(* The methods of SseStateManager and StreamContext take &mut self and     *)
(* return the events they emit.  Here each takes and returns a record      *)
(* r = [c |-> the StreamContext, events |-> the events emitted so far by   *)
(* the running call], so that a method body is the composition of its      *)
(* statements.                                                             *)
(***************************************************************************)

\* SseEvent::new with the fields of the JSON payload the model keeps.
SseEvent(event, index, kind, text) ==
    [event |-> event, index |-> index, kind |-> kind, text |-> text, id |-> "",
     stop_reason |-> NoReason, input_tokens |-> -1, output_tokens |-> -1,
     signature |-> <<>>]

BlockState(block_type) ==
    [block_type |-> block_type, started |-> FALSE, stopped |-> FALSE]

\* SseStateManager::new
NewSseStateManager ==
    [message_started |-> FALSE, message_delta_sent |-> FALSE,
     active_blocks |-> <<>>, message_ended |-> FALSE, next_block_index |-> 0,
     stop_reason |-> NoReason, has_tool_use |-> FALSE]

\* events.push / events.extend
Emit(r, evs) == [r EXCEPT !.events = @ \o evs]

is_block_open_of_type(sm, index, expected_type) ==
    /\ index \in DOMAIN sm.active_blocks
    /\ sm.active_blocks[index].started
    /\ ~sm.active_blocks[index].stopped
    /\ sm.active_blocks[index].block_type = expected_type

\* A counter that leaves every other index out.
MutSkipsAnIndex(r) == [r EXCEPT !.c.state_manager.next_block_index = @ + 2]

\* let index = self.next_block_index; self.next_block_index += 1; the caller
\* reads the index before the call.
next_block_index(r) == [r EXCEPT !.c.state_manager.next_block_index = @ + 1]

set_has_tool_use(r, has) == [r EXCEPT !.c.state_manager.has_tool_use = has]

set_stop_reason(r, reason) == [r EXCEPT !.c.state_manager.stop_reason = reason]

has_non_thinking_blocks(sm) ==
    \E i \in DOMAIN sm.active_blocks : sm.active_blocks[i].block_type # "thinking"

\* get_stop_reason with the two tests in the wrong order.
MutStopReasonToolFirst(sm) ==
    IF sm.has_tool_use THEN "tool_use"
    ELSE IF sm.stop_reason # NoReason THEN sm.stop_reason
    ELSE "end_turn"

get_stop_reason(sm) ==
    IF sm.stop_reason # NoReason THEN sm.stop_reason
    ELSE IF sm.has_tool_use THEN "tool_use"
    ELSE "end_turn"

handle_message_start(r) ==
    IF r.c.state_manager.message_started THEN r
    ELSE Emit([r EXCEPT !.c.state_manager.message_started = TRUE],
              <<SseEvent("message_start", NoIndex, "", <<>>)>>)

OpenBlocks(blocks) ==
    {i \in DOMAIN blocks : blocks[i].started /\ ~blocks[i].stopped}

OpenTextBlocks(blocks) ==
    {i \in OpenBlocks(blocks) : blocks[i].block_type = "text"}

\* The set S as a sequence in ascending order.
RECURSIVE Ascending(_)
Ascending(S) ==
    IF S = {} THEN <<>>
    ELSE <<CHOOSE x \in S : \A y \in S : x <= y>>
         \o Ascending(S \ {CHOOSE x \in S : \A y \in S : x <= y})

ContentBlockStop(index) == SseEvent("content_block_stop", index, "", <<>>)

\* The body of the loops over active_blocks.iter_mut().
StopIfOpen(r, index) ==
    IF index \in OpenBlocks(r.c.state_manager.active_blocks)
    THEN Emit([r EXCEPT !.c.state_manager.active_blocks[index].stopped = TRUE],
              <<ContentBlockStop(index)>>)
    ELSE r

\* The loops over active_blocks.iter_mut(), visiting the blocks in `order`.
RECURSIVE StopInOrder(_, _)
StopInOrder(r, order) ==
    IF order = <<>> THEN r
    ELSE StopInOrder(StopIfOpen(r, Head(order)), Tail(order))

\* Lines 340-354 of handle_content_block_start.
StartBlock(r, index, block_type, data) ==
    IF index \in DOMAIN r.c.state_manager.active_blocks
    THEN IF r.c.state_manager.active_blocks[index].started
         THEN r
         ELSE Emit([r EXCEPT !.c.state_manager.active_blocks[index].started = TRUE],
                   <<data>>)
    ELSE Emit([r EXCEPT !.c.state_manager.active_blocks =
                  (index :> [BlockState(block_type) EXCEPT !.started = TRUE]) @@ @],
              <<data>>)

\* handle_content_block_start leaving the open text blocks open.
MutNoAutoClose(r, index, block_type, data) ==
    StartBlock(IF block_type = "tool_use" THEN set_has_tool_use(r, TRUE) ELSE r,
               index, block_type, data)

\* The open text blocks are closed in HashMap iteration order; StreamContext keeps
\* at most one text block open (AtMostOneOpenText), so the order is immaterial and
\* the model takes the ascending one.
handle_content_block_start(r, index, block_type, data) ==
    StartBlock(IF block_type = "tool_use"
               THEN StopInOrder(set_has_tool_use(r, TRUE),
                                Ascending(OpenTextBlocks(r.c.state_manager.active_blocks)))
               ELSE r,
               index, block_type, data)

handle_content_block_delta(r, index, data) ==
    IF index \in DOMAIN r.c.state_manager.active_blocks
    THEN IF \/ ~r.c.state_manager.active_blocks[index].started
            \/ r.c.state_manager.active_blocks[index].stopped
         THEN r
         ELSE Emit(r, <<data>>)
    ELSE r

handle_content_block_stop(r, index) ==
    IF index \in DOMAIN r.c.state_manager.active_blocks
    THEN IF r.c.state_manager.active_blocks[index].stopped
         THEN r
         ELSE Emit([r EXCEPT !.c.state_manager.active_blocks[index].stopped = TRUE],
                   <<ContentBlockStop(index)>>)
    ELSE r

MessageDelta(sm, input_tokens, output_tokens) ==
    [SseEvent("message_delta", NoIndex, "", <<>>) EXCEPT
        !.stop_reason = get_stop_reason(sm),
        !.input_tokens = input_tokens,
        !.output_tokens = output_tokens]

\* Lines 424-441 of SseStateManager::generate_final_events.
SendMessageDelta(r, input_tokens, output_tokens) ==
    IF r.c.state_manager.message_delta_sent THEN r
    ELSE Emit([r EXCEPT !.c.state_manager.message_delta_sent = TRUE],
              <<MessageDelta(r.c.state_manager, input_tokens, output_tokens)>>)

\* Lines 443-450 of SseStateManager::generate_final_events.
SendMessageStop(r) ==
    IF r.c.state_manager.message_ended THEN r
    ELSE Emit([r EXCEPT !.c.state_manager.message_ended = TRUE],
              <<SseEvent("message_stop", NoIndex, "", <<>>)>>)

\* generate_final_events sending message_delta before it closes the open blocks.
MutFinalDeltaFirst(r, input_tokens, output_tokens, order) ==
    SendMessageStop(StopInOrder(SendMessageDelta(r, input_tokens, output_tokens), order))

\* SseStateManager::generate_final_events; `order` is the order in which the
\* HashMap iteration visits the open blocks.
sm_generate_final_events(r, input_tokens, output_tokens, order) ==
    SendMessageStop(SendMessageDelta(StopInOrder(r, order), input_tokens, output_tokens))

\* --------------------------------------------------------- StreamContext

CONTEXT_WINDOW_SIZE == 200000

\* StreamContext::new_with_thinking; tool_block_indices maps tool_use_id to index.
NewStreamContext(input_tokens, thinking_enabled) ==
    [state_manager |-> NewSseStateManager,
     input_tokens |-> input_tokens,
     context_input_tokens |-> NoIndex,
     output_tokens |-> 0,
     tool_block_indices |-> <<>>,
     thinking_enabled |-> thinking_enabled,
     thinking_buffer |-> <<>>,
     in_thinking_block |-> FALSE,
     thinking_extracted |-> FALSE,
     thinking_block_index |-> NoIndex,
     text_block_index |-> NoIndex,
     strip_thinking_leading_newline |-> FALSE]

\* The start of a call on the context c: nothing emitted yet.
Call(c) == [c |-> c, events |-> <<>>]

TextBlockStart(index) == SseEvent("content_block_start", index, "text", <<>>)

ThinkingBlockStart(index) == SseEvent("content_block_start", index, "thinking", <<>>)

ToolUseBlockStart(index, tool_use) ==
    [SseEvent("content_block_start", index, "tool_use", <<>>) EXCEPT
        !.id = tool_use.tool_use_id]

TextDelta(index, text) == SseEvent("content_block_delta", index, "text_delta", text)

InputJsonDelta(index, partial_json) ==
    SseEvent("content_block_delta", index, "input_json_delta", partial_json)

create_thinking_delta_event(index, thinking) ==
    SseEvent("content_block_delta", index, "thinking_delta", thinking)

\* The signature is the SHA-256 of (message_id, index, output_tokens); the model
\* keeps the hashed pair of numbers.
create_signature_delta_event(c, index) ==
    [SseEvent("content_block_delta", index, "signature_delta", <<>>) EXCEPT
        !.signature = <<index, c.output_tokens>>]

\* Lines 556-571: the initial text block of the non-thinking mode.
InitialTextBlock(r) ==
    handle_content_block_start(
        next_block_index([r EXCEPT !.c.text_block_index =
                                       r.c.state_manager.next_block_index]),
        r.c.state_manager.next_block_index, "text",
        TextBlockStart(r.c.state_manager.next_block_index))

generate_initial_events(r) ==
    IF r.c.thinking_enabled
    THEN handle_message_start(r)
    ELSE InitialTextBlock(handle_message_start(r))

\* The index of a closed text block is kept.
MutKeepClosedIndex(r) == r

\* Lines 791-795: a text_block_index whose block is no longer open is dropped.
ForgetClosedTextBlock(r) ==
    IF /\ r.c.text_block_index # NoIndex
       /\ ~is_block_open_of_type(r.c.state_manager, r.c.text_block_index, "text")
    THEN [r EXCEPT !.c.text_block_index = NoIndex]
    ELSE r

\* Lines 798-820: the text block index, a new block being started when there is none.
EnsureTextBlock(r) ==
    IF r.c.text_block_index # NoIndex THEN r
    ELSE handle_content_block_start(
             next_block_index([r EXCEPT !.c.text_block_index =
                                            r.c.state_manager.next_block_index]),
             r.c.state_manager.next_block_index, "text",
             TextBlockStart(r.c.state_manager.next_block_index))

\* Lines 823-835.
SendTextDelta(r, text) ==
    handle_content_block_delta(r, r.c.text_block_index,
                               TextDelta(r.c.text_block_index, text))

create_text_delta_events(r, text) ==
    SendTextDelta(EnsureTextBlock(ForgetClosedTextBlock(r)), text)

close_thinking_block(r, thinking_index) ==
    handle_content_block_stop(
        Emit(r, <<create_thinking_delta_event(thinking_index, <<>>),
                  create_signature_delta_event(r.c, thinking_index)>>),
        thinking_index)

\* if let Some(thinking_index) = self.thinking_block_index { push thinking_delta }
ThinkingDeltaIfIndexed(r, thinking) ==
    IF r.c.thinking_block_index # NoIndex
    THEN Emit(r, <<create_thinking_delta_event(r.c.thinking_block_index, thinking)>>)
    ELSE r

\* if !thinking_content.is_empty() { if let Some(thinking_index) ... }
SendThinkingContent(r, thinking_content) ==
    IF thinking_content # <<>> THEN ThinkingDeltaIfIndexed(r, thinking_content) ELSE r

\* if let Some(thinking_index) = self.thinking_block_index { close_thinking_block }
CloseThinkingIfIndexed(r) ==
    IF r.c.thinking_block_index # NoIndex
    THEN close_thinking_block(r, r.c.thinking_block_index)
    ELSE r

\* The end of the thinking block without self.in_thinking_block = false.
MutMarkOnlyExtracted(r) == [r EXCEPT !.c.thinking_extracted = TRUE]

\* self.in_thinking_block = false; self.thinking_extracted = true;
MarkThinkingExtracted(r) ==
    [r EXCEPT !.c.in_thinking_block = FALSE, !.c.thinking_extracted = TRUE]

\* Lines 652-658: the text before the start tag, unless it is blank.
SendTextBeforeThinking(r, start_pos) ==
    IF start_pos > 0 /\ ~IsBlank(SliceTo(r.c.thinking_buffer, start_pos))
    THEN create_text_delta_events(r, SliceTo(r.c.thinking_buffer, start_pos))
    ELSE r

\* Lines 660-681: enter the thinking block and start its content block.
StartThinkingBlock(r, start_pos) ==
    handle_content_block_start(
        next_block_index(
            [r EXCEPT !.c.in_thinking_block = TRUE,
                      !.c.strip_thinking_leading_newline = TRUE,
                      !.c.thinking_buffer = SliceFrom(@, start_pos + Len(TAG_START)),
                      !.c.thinking_block_index = r.c.state_manager.next_block_index]),
        r.c.state_manager.next_block_index, "thinking",
        ThinkingBlockStart(r.c.state_manager.next_block_index))

\* Lines 683-702: no start tag; all but the last Len(TAG_START) bytes go out as
\* text unless they are blank.
HoldBackText(r, safe_len) ==
    IF safe_len > 0 /\ ~IsBlank(SliceTo(r.c.thinking_buffer, safe_len))
    THEN [create_text_delta_events(r, SliceTo(r.c.thinking_buffer, safe_len))
             EXCEPT !.c.thinking_buffer = SliceFrom(@, safe_len)]
    ELSE r

\* Lines 705-715: strip the newline that follows <thinking>.
StripLeadingNewline(r) ==
    IF ~r.c.strip_thinking_leading_newline THEN r
    ELSE IF starts_with(r.c.thinking_buffer, <<"\n">>)
         THEN [r EXCEPT !.c.thinking_buffer = SliceFrom(@, 1),
                        !.c.strip_thinking_leading_newline = FALSE]
    ELSE IF r.c.thinking_buffer # <<>>
         THEN [r EXCEPT !.c.strip_thinking_leading_newline = FALSE]
    ELSE r

\* The end tag is stripped without the two newlines after it.
MutKeepNewlines(r, end_pos) ==
    [CloseThinkingIfIndexed(
         MarkThinkingExtracted(
             SendThinkingContent(r, SliceTo(r.c.thinking_buffer, end_pos))))
        EXCEPT !.c.thinking_buffer = SliceFrom(@, end_pos + Len(TAG_END))]

\* Lines 719-740: the end tag followed by two newlines closes the thinking block.
LeaveThinkingBlock(r, end_pos) ==
    [CloseThinkingIfIndexed(
         MarkThinkingExtracted(
             SendThinkingContent(r, SliceTo(r.c.thinking_buffer, end_pos))))
        EXCEPT !.c.thinking_buffer = SliceFrom(@, end_pos + Len(TAG_END_NL))]

\* Lines 741-764: no end tag; all but the last Len(TAG_END_NL) bytes go out as
\* thinking.
HoldBackThinking(r, safe_len) ==
    IF safe_len > 0
    THEN [SendThinkingContent(r, SliceTo(r.c.thinking_buffer, safe_len))
             EXCEPT !.c.thinking_buffer = SliceFrom(@, safe_len)]
    ELSE r

\* Lines 767-773: after the thinking block the buffer goes out as text.
FlushBufferAsText(r) ==
    IF r.c.thinking_buffer # <<>>
    THEN create_text_delta_events([r EXCEPT !.c.thinking_buffer = <<>>],
                                  r.c.thinking_buffer)
    ELSE r

\* The loop of process_content_with_thinking.
RECURSIVE ThinkingLoop(_)
InsideThinkingBlock(r) ==
    IF find_real_thinking_end_tag(r.c.thinking_buffer) # NoIndex
    THEN ThinkingLoop(
             LeaveThinkingBlock(r, find_real_thinking_end_tag(r.c.thinking_buffer)))
    ELSE HoldBackThinking(r,
             find_char_boundary(r.c.thinking_buffer,
                 saturating_sub(Len(r.c.thinking_buffer), Len(TAG_END_NL))))

ThinkingLoop(r) ==
    IF ~r.c.in_thinking_block /\ ~r.c.thinking_extracted
    THEN IF find_real_thinking_start_tag(r.c.thinking_buffer) # NoIndex
         THEN ThinkingLoop(
                  StartThinkingBlock(
                      SendTextBeforeThinking(r,
                          find_real_thinking_start_tag(r.c.thinking_buffer)),
                      find_real_thinking_start_tag(r.c.thinking_buffer)))
         ELSE HoldBackText(r,
                  find_char_boundary(r.c.thinking_buffer,
                      saturating_sub(Len(r.c.thinking_buffer), Len(TAG_START))))
    ELSE IF r.c.in_thinking_block
         THEN InsideThinkingBlock(StripLeadingNewline(r))
         ELSE FlushBufferAsText(r)

process_content_with_thinking(r, content) ==
    ThinkingLoop([r EXCEPT !.c.thinking_buffer = @ \o content])

\* Lines 628-638.
RouteContent(r, content) ==
    IF r.c.thinking_enabled
    THEN process_content_with_thinking(r, content)
    ELSE create_text_delta_events(r, content)

process_assistant_response(r, content) ==
    IF content = <<>> THEN r
    ELSE RouteContent([r EXCEPT !.c.output_tokens = @ + estimate_tokens(content)],
                      content)

\* if !remaining.is_empty() { create_text_delta_events(&remaining) }
SendRemainingText(r, remaining) ==
    IF remaining # <<>> THEN create_text_delta_events(r, remaining) ELSE r

\* Lines 912-935 and 1018-1040: the end tag at the end of the buffer closes the
\* thinking block; what follows the tag goes out as text.
CloseThinkingAtBufferEnd(r, end_pos) ==
    SendRemainingText(
        [CloseThinkingIfIndexed(
             MarkThinkingExtracted(
                 SendThinkingContent(r, SliceTo(r.c.thinking_buffer, end_pos))))
            EXCEPT !.c.thinking_buffer = <<>>],
        trim_start(SliceFrom(r.c.thinking_buffer, end_pos + Len(TAG_END))))

\* process_tool_use without the search for the end tag.
MutNoBoundary(r) == r

\* Lines 910-937 of process_tool_use.
ToolUseBoundary(r) ==
    IF /\ r.c.thinking_enabled
       /\ r.c.in_thinking_block
       /\ find_real_thinking_end_tag_at_buffer_end(r.c.thinking_buffer) # NoIndex
    THEN CloseThinkingAtBufferEnd(r,
             find_real_thinking_end_tag_at_buffer_end(r.c.thinking_buffer))
    ELSE r

\* process_tool_use leaving the held text in the buffer.
MutNoFlush(r) == r

\* Lines 942-949 of process_tool_use.
FlushHeldText(r) ==
    IF /\ r.c.thinking_enabled
       /\ ~r.c.in_thinking_block
       /\ ~r.c.thinking_extracted
       /\ r.c.thinking_buffer # <<>>
    THEN create_text_delta_events([r EXCEPT !.c.thinking_buffer = <<>>],
                                  r.c.thinking_buffer)
    ELSE r

\* Lines 952-959 of process_tool_use.
AssignToolBlockIndex(r, tool_use) ==
    IF tool_use.tool_use_id \in DOMAIN r.c.tool_block_indices THEN r
    ELSE next_block_index(
             [r EXCEPT !.c.tool_block_indices =
                 (tool_use.tool_use_id :> r.c.state_manager.next_block_index) @@ @])

\* Lines 962-976 of process_tool_use.
StartToolUseBlock(r, tool_use) ==
    handle_content_block_start(r, r.c.tool_block_indices[tool_use.tool_use_id],
        "tool_use",
        ToolUseBlockStart(r.c.tool_block_indices[tool_use.tool_use_id], tool_use))

\* Lines 979-995 of process_tool_use.
SendToolInput(r, tool_use) ==
    IF tool_use.input # <<>>
    THEN handle_content_block_delta(
             [r EXCEPT !.c.output_tokens = @ + ((Len(tool_use.input) + 3) \div 4)],
             r.c.tool_block_indices[tool_use.tool_use_id],
             InputJsonDelta(r.c.tool_block_indices[tool_use.tool_use_id],
                            tool_use.input))
    ELSE r

\* Lines 998-1002 of process_tool_use.
StopToolUseBlock(r, tool_use) ==
    IF tool_use.stop
    THEN handle_content_block_stop(r, r.c.tool_block_indices[tool_use.tool_use_id])
    ELSE r

\* tool_use is [tool_use_id, name, input, stop].
process_tool_use(r, tool_use) ==
    StopToolUseBlock(
        SendToolInput(
            StartToolUseBlock(
                AssignToolBlockIndex(
                    FlushHeldText(ToolUseBoundary(set_has_tool_use(r, TRUE))),
                    tool_use),
                tool_use),
            tool_use),
        tool_use)

\* A ContextUsage that sends a ping to the client and records no stop_reason.
MutUsageEmits(r, context_usage_percentage) ==
    Emit([r EXCEPT !.c.context_input_tokens =
             (context_usage_percentage * CONTEXT_WINDOW_SIZE) \div 100],
         <<SseEvent("ping", NoIndex, "", <<>>)>>)

\* Lines 581-599 of process_kiro_event.
RecordContextUsage(r, context_usage_percentage) ==
    IF context_usage_percentage >= 100
    THEN set_stop_reason(
             [r EXCEPT !.c.context_input_tokens =
                 (context_usage_percentage * CONTEXT_WINDOW_SIZE) \div 100],
             "model_context_window_exceeded")
    ELSE [r EXCEPT !.c.context_input_tokens =
             (context_usage_percentage * CONTEXT_WINDOW_SIZE) \div 100]

\* Lines 607-617 of process_kiro_event.
RecordException(r, exception_type) ==
    IF exception_type = "ContentLengthExceededException"
    THEN set_stop_reason(r, "max_tokens")
    ELSE r

\* event is [type, ...]: AssistantResponse(content), ToolUse(tool_use),
\* ContextUsage(context_usage_percentage), Error, Exception(exception_type), or
\* any other upstream event.
process_kiro_event(r, event) ==
    CASE event.type = "AssistantResponse" ->
            process_assistant_response(r, event.content)
      [] event.type = "ToolUse" -> process_tool_use(r, event.tool_use)
      [] event.type = "ContextUsage" ->
            RecordContextUsage(r, event.context_usage_percentage)
      [] event.type = "Exception" -> RecordException(r, event.exception_type)
      [] OTHER -> r

\* Lines 1042-1051: still inside the thinking block and no end tag.
FlushThinkingAtEnd(r) ==
    CloseThinkingIfIndexed(ThinkingDeltaIfIndexed(r, r.c.thinking_buffer))

\* Lines 1011-1059 of StreamContext::generate_final_events.
FlushThinkingBuffer(r) ==
    IF r.c.thinking_enabled /\ r.c.thinking_buffer # <<>>
    THEN [(IF r.c.in_thinking_block
           THEN IF find_real_thinking_end_tag_at_buffer_end(r.c.thinking_buffer) # NoIndex
                THEN CloseThinkingAtBufferEnd(r,
                         find_real_thinking_end_tag_at_buffer_end(r.c.thinking_buffer))
                ELSE FlushThinkingAtEnd(r)
           ELSE create_text_delta_events(r, r.c.thinking_buffer))
             EXCEPT !.c.thinking_buffer = <<>>]
    ELSE r

\* Lines 1061-1070 of StreamContext::generate_final_events.
PadThinkingOnly(r) ==
    IF /\ r.c.thinking_enabled
       /\ r.c.thinking_block_index # NoIndex
       /\ ~has_non_thinking_blocks(r.c.state_manager)
    THEN create_text_delta_events(set_stop_reason(r, "max_tokens"), <<" ">>)
    ELSE r

\* StreamContext::generate_final_events up to the call of the state manager's
\* generate_final_events (lines 1011-1073).
FinalFlush(r) == PadThinkingOnly(FlushThinkingBuffer(r))

\* Lines 1072-1080 of StreamContext::generate_final_events.
FinalEvents(r, order) ==
    sm_generate_final_events(r,
        IF r.c.context_input_tokens # NoIndex
        THEN r.c.context_input_tokens
        ELSE r.c.input_tokens,
        r.c.output_tokens, order)

\* StreamContext::generate_final_events; `order` is the order in which the state
\* manager's HashMap iteration visits the blocks that are still open.
generate_final_events(r, order) == FinalEvents(FinalFlush(r), order)

\* Every order in which a HashMap iteration can visit the open blocks.
IterationOrders(blocks) ==
    {f \in [1 .. Cardinality(OpenBlocks(blocks)) -> OpenBlocks(blocks)] :
        \A i, j \in DOMAIN f : i # j => f[i] # f[j]}

\* ------------------------------------------------------ request conversion
\* Text of a request (message text, system text, descriptions) is a sequence
\* of pieces that are never split; the empty string is <<>>.  A name that is
\* compared case-insensitively or searched (tool name, model name) is a
\* sequence of one-character strings.

UPPERCASE ==
    <<"A", "B", "C", "D", "E", "F", "G", "H", "I", "J", "K", "L", "M",
      "N", "O", "P", "Q", "R", "S", "T", "U", "V", "W", "X", "Y", "Z">>

LOWERCASE ==
    <<"a", "b", "c", "d", "e", "f", "g", "h", "i", "j", "k", "l", "m",
      "n", "o", "p", "q", "r", "s", "t", "u", "v", "w", "x", "y", "z">>

\* The lower-case letter of each capital.
LowerOf ==
    [c \in {UPPERCASE[k] : k \in DOMAIN UPPERCASE} |->
        LOWERCASE[CHOOSE k \in DOMAIN UPPERCASE : UPPERCASE[k] = c]]

\* str::to_lowercase on ASCII names.
to_lowercase(s) ==
    [i \in 1 .. Len(s) |-> IF s[i] \in DOMAIN LowerOf THEN LowerOf[s[i]] ELSE s[i]]

\* str::contains.
contains(s, sub) == FindFrom(s, sub, 0) # NoIndex

\* [String]::join.
RECURSIVE join(_, _)
join(parts, sep) ==
    IF parts = <<>> THEN <<>>
    ELSE IF Len(parts) = 1 THEN parts[1]
    ELSE parts[1] \o sep \o join(Tail(parts), sep)

\* The two suffixes are written without the back-quotes around Edit and new_string.
WRITE_TOOL_DESCRIPTION_SUFFIX ==
    <<"- IMPORTANT: If the content to write exceeds 150 lines, you MUST only write the first 50 lines using this tool, then use Edit tool to append the remaining content in chunks of no more than 50 lines each. If needed, leave a unique placeholder to help append content. Do NOT attempt to write all content at once.">>

EDIT_TOOL_DESCRIPTION_SUFFIX ==
    <<"- IMPORTANT: If the new_string content exceeds 50 lines, you MUST split it into multiple Edit calls, each replacing no more than 50 lines at a time. If used to append content, leave a unique placeholder to help append content. On the final chunk, do NOT include the placeholder.">>

SYSTEM_CHUNKED_POLICY ==
    <<"When the Write or Edit tool has content size limits, always comply silently. Never suggest bypassing these limits via alternative tools. Never ask the user whether to switch approaches. Complete all chunked operations without commentary.">>

\* Every opus name routed to claude-opus-4.5.
MutAllOpus45(model) ==
    IF contains(to_lowercase(model), <<"s", "o", "n", "n", "e", "t">>)
    THEN <<"claude-sonnet-4.5">>
    ELSE IF contains(to_lowercase(model), <<"o", "p", "u", "s">>)
    THEN <<"claude-opus-4.5">>
    ELSE IF contains(to_lowercase(model), <<"h", "a", "i", "k", "u">>)
    THEN <<"claude-haiku-4.5">>
    ELSE <<>>

\* Option<String>: <<>> is None, <<id>> is Some(id).
map_model(model) ==
    IF contains(to_lowercase(model), <<"s", "o", "n", "n", "e", "t">>)
    THEN <<"claude-sonnet-4.5">>
    ELSE IF contains(to_lowercase(model), <<"o", "p", "u", "s">>)
    THEN IF \/ contains(to_lowercase(model), <<"4", "-", "5">>)
            \/ contains(to_lowercase(model), <<"4", ".", "5">>)
         THEN <<"claude-opus-4.5">>
         ELSE <<"claude-opus-4.6">>
    ELSE IF contains(to_lowercase(model), <<"h", "a", "i", "k", "u">>)
    THEN <<"claude-haiku-4.5">>
    ELSE <<>>

\* handlers.rs: is_opus_4_6 of override_thinking_from_model_name.
is_opus_4_6(model_lower) ==
    /\ contains(model_lower, <<"o", "p", "u", "s">>)
    /\ \/ contains(model_lower, <<"4", "-", "6">>)
       \/ contains(model_lower, <<"4", ".", "6">>)

\* handlers.rs: override_thinking_from_model_name; Option is <<>> or <<value>>.
override_thinking_from_model_name(payload) ==
    IF ~contains(to_lowercase(payload.model),
                 <<"t", "h", "i", "n", "k", "i", "n", "g">>)
    THEN payload
    ELSE [payload EXCEPT
             !.thinking =
                 <<[thinking_type |-> IF is_opus_4_6(to_lowercase(payload.model))
                                      THEN "adaptive" ELSE "enabled",
                    budget_tokens |-> 20000]>>,
             !.output_config =
                 IF is_opus_4_6(to_lowercase(payload.model))
                 THEN <<[effort |-> "high"]>>
                 ELSE @]

\* Message::User(HistoryUserMessage) of the Kiro history.
HistoryUserMessage(content, model_id, images, tool_results) ==
    [role |-> "user", content |-> content, model_id |-> model_id,
     images |-> images, tool_results |-> tool_results, tool_uses |-> <<>>]

\* Message::Assistant(HistoryAssistantMessage); tool_uses None is <<>>.
HistoryAssistantMessage(content, tool_uses) ==
    [role |-> "assistant", content |-> content, model_id |-> "",
     images |-> <<>>, tool_results |-> <<>>, tool_uses |-> tool_uses]

collect_history_tool_names(history) ==
    LET RECURSIVE Push(_, _), Collect(_, _)
        Push(tool_names, tool_uses) ==
            IF tool_uses = <<>> THEN tool_names
            ELSE Push(IF \E i \in DOMAIN tool_names : tool_names[i] = Head(tool_uses).name
                      THEN tool_names
                      ELSE Append(tool_names, Head(tool_uses).name),
                      Tail(tool_uses))
        Collect(msgs, tool_names) ==
            IF msgs = <<>> THEN tool_names
            ELSE Collect(Tail(msgs),
                         IF Head(msgs).role = "assistant"
                         THEN Push(tool_names, Head(msgs).tool_uses)
                         ELSE tool_names)
    IN Collect(history, <<>>)

create_placeholder_tool(name) ==
    [name |-> name,
     description |-> <<"Tool used in conversation history">>,
     input_schema |-> [type |-> "object", properties |-> <<>>, required |-> <<>>,
                       additionalProperties |-> TRUE]]

\* convert_request, step 10: the lower-cased names of the converted tools.
existing_tool_names(tools) == {to_lowercase(tools[i].name) : i \in DOMAIN tools}

MutDeclaredOnly(tools, history_tool_names) == tools

\* convert_request, step 10: a placeholder is pushed for every history tool
\* name whose lower-cased form is not among the existing names.
AddPlaceholderTools(tools, history_tool_names) ==
    tools \o
    [i \in DOMAIN SelectSeq(history_tool_names,
                            LAMBDA n : to_lowercase(n) \notin existing_tool_names(tools)) |->
        create_placeholder_tool(
            SelectSeq(history_tool_names,
                      LAMBDA n : to_lowercase(n) \notin existing_tool_names(tools))[i])]

determine_chat_trigger_type(req) == "MANUAL"

get_image_format(media_type) ==
    CASE media_type = "image/jpeg" -> <<"jpeg">>
      [] media_type = "image/png" -> <<"png">>
      [] media_type = "image/gif" -> <<"gif">>
      [] media_type = "image/webp" -> <<"webp">>
      [] OTHER -> <<>>

\* content is Option<Value>: a string value, an array of items with an
\* optional "text", any other value (rendered as its JSON text), or None.
extract_tool_result_content(content) ==
    IF content = <<>> THEN <<>>
    ELSE IF content[1].kind = "string" THEN content[1].text
    ELSE IF content[1].kind = "array"
    THEN join([i \in DOMAIN SelectSeq(content[1].blocks, LAMBDA item : item.text # <<>>) |->
                  SelectSeq(content[1].blocks, LAMBDA item : item.text # <<>>)[i].text[1]],
              <<"\n">>)
    ELSE content[1].text

\* ToolResult::error / ToolResult::success with the status set.
ToolResult(tool_use_id, content, is_error) ==
    [tool_use_id |-> tool_use_id, content |-> content,
     status |-> IF is_error THEN "error" ELSE "success", is_error |-> is_error]

\* process_message_content: one item of a content array.
AddContentBlock(parts, block) ==
    CASE block.block_type = "text" /\ block.text # <<>> ->
            [parts EXCEPT !.text_parts = Append(@, block.text[1])]
      [] block.block_type = "image" /\ block.source # <<>>
         /\ get_image_format(block.source[1].media_type) # <<>> ->
            [parts EXCEPT !.images =
                Append(@, [format |-> get_image_format(block.source[1].media_type)[1],
                           data |-> block.source[1].data])]
      [] block.block_type = "tool_result" /\ block.tool_use_id # <<>> ->
            [parts EXCEPT !.tool_results =
                Append(@, ToolResult(block.tool_use_id[1],
                                     extract_tool_result_content(block.content),
                                     block.is_error = <<TRUE>>))]
      [] OTHER -> parts

process_message_content(content) ==
    LET RECURSIVE Collect(_, _)
        Collect(blocks, parts) ==
            IF blocks = <<>> THEN parts
            ELSE Collect(Tail(blocks), AddContentBlock(parts, Head(blocks)))
        Result(parts) ==
            [text |-> join(parts.text_parts, <<"\n">>), images |-> parts.images,
             tool_results |-> parts.tool_results]
    IN CASE content.kind = "string" ->
                Result([text_parts |-> <<content.text>>, images |-> <<>>,
                        tool_results |-> <<>>])
         [] content.kind = "array" ->
                Result(Collect(content.blocks,
                               [text_parts |-> <<>>, images |-> <<>>,
                                tool_results |-> <<>>]))
         [] OTHER -> Result([text_parts |-> <<>>, images |-> <<>>, tool_results |-> <<>>])

\* validate_tool_pairing, step 1.
all_tool_use_ids(history) ==
    UNION {{history[i].tool_uses[j].tool_use_id : j \in DOMAIN history[i].tool_uses} :
              i \in {k \in DOMAIN history : history[k].role = "assistant"}}

\* validate_tool_pairing, step 2.
history_tool_result_ids(history) ==
    UNION {{history[i].tool_results[j].tool_use_id : j \in DOMAIN history[i].tool_results} :
              i \in {k \in DOMAIN history : history[k].role = "user"}}

MutKeepEveryMatch(pairing, result) ==
    IF result.tool_use_id \in pairing.unpaired_tool_use_ids
    THEN [pairing EXCEPT !.filtered_results = Append(@, result)]
    ELSE pairing

\* validate_tool_pairing, step 4: one tool_result of the current message.  A
\* result that is a duplicate or names an unknown id is only logged.
FilterToolResult(pairing, result) ==
    IF result.tool_use_id \in pairing.unpaired_tool_use_ids
    THEN [filtered_results |-> Append(pairing.filtered_results, result),
          unpaired_tool_use_ids |-> pairing.unpaired_tool_use_ids \ {result.tool_use_id}]
    ELSE pairing

validate_tool_pairing(history, tool_results) ==
    LET RECURSIVE Filter(_, _)
        Filter(results, pairing) ==
            IF results = <<>> THEN pairing
            ELSE Filter(Tail(results), FilterToolResult(pairing, Head(results)))
    IN Filter(tool_results,
              [filtered_results |-> <<>>,
               unpaired_tool_use_ids |->
                   all_tool_use_ids(history) \ history_tool_result_ids(history)])

MutKeepOrphans(history, orphaned_ids) == history

remove_orphaned_tool_uses(history, orphaned_ids) ==
    IF orphaned_ids = {} THEN history
    ELSE [i \in DOMAIN history |->
            IF history[i].role = "assistant"
            THEN [history[i] EXCEPT !.tool_uses =
                     SelectSeq(@, LAMBDA tu : tu.tool_use_id \notin orphaned_ids)]
            ELSE history[i]]

\* Descriptions of the modelled tools are shorter than 10000 characters, so
\* char_indices().nth(10000) is None and the description is kept whole.
convert_tools(tools) ==
    IF tools = <<>> THEN <<>>
    ELSE [i \in DOMAIN tools[1] |->
            [name |-> tools[1][i].name,
             description |->
                 IF tools[1][i].name = <<"W", "r", "i", "t", "e">>
                 THEN tools[1][i].description \o <<"\n">> \o WRITE_TOOL_DESCRIPTION_SUFFIX
                 ELSE IF tools[1][i].name = <<"E", "d", "i", "t">>
                 THEN tools[1][i].description \o <<"\n">> \o EDIT_TOOL_DESCRIPTION_SUFFIX
                 ELSE tools[1][i].description,
             input_schema |-> tools[1][i].input_schema]]

\* Option<String>: <<>> is None, <<prefix>> is Some(prefix).
generate_thinking_prefix(req) ==
    IF req.thinking = <<>> THEN <<>>
    ELSE IF req.thinking[1].thinking_type = "enabled"
    THEN << <<"<thinking_mode>", "enabled", "</thinking_mode>", "<max_thinking_length>",
              ToString(req.thinking[1].budget_tokens), "</max_thinking_length>">> >>
    ELSE IF req.thinking[1].thinking_type = "adaptive"
    THEN << <<"<thinking_mode>", "adaptive", "</thinking_mode>", "<thinking_effort>",
              IF req.output_config = <<>> THEN "high" ELSE req.output_config[1].effort,
              "</thinking_effort>">> >>
    ELSE <<>>

has_thinking_tags(content) ==
    \/ contains(content, <<"<thinking_mode>">>)
    \/ contains(content, <<"<max_thinking_length>">>)

merge_user_messages(messages, model_id) ==
    LET Add(merged, c) ==
            [content_parts |-> IF c.text # <<>>
                               THEN Append(merged.content_parts, c.text)
                               ELSE merged.content_parts,
             all_images |-> merged.all_images \o c.images,
             all_tool_results |-> merged.all_tool_results \o c.tool_results]
        RECURSIVE Merge(_, _)
        Merge(msgs, merged) ==
            IF msgs = <<>> THEN merged
            ELSE Merge(Tail(msgs), Add(merged, process_message_content(Head(msgs).content)))
        Result(merged) ==
            HistoryUserMessage(join(merged.content_parts, <<"\n">>), model_id,
                               merged.all_images, merged.all_tool_results)
    IN Result(Merge(messages, [content_parts |-> <<>>, all_images |-> <<>>,
                               all_tool_results |-> <<>>]))

\* convert_assistant_message: one item of a content array.
AddAssistantBlock(parts, block) ==
    CASE block.block_type = "thinking" /\ block.thinking # <<>> ->
            [parts EXCEPT !.thinking_content = @ \o block.thinking[1]]
      [] block.block_type = "text" /\ block.text # <<>> ->
            [parts EXCEPT !.text_content = @ \o block.text[1]]
      [] block.block_type = "tool_use" /\ block.id # <<>> /\ block.name # <<>> ->
            [parts EXCEPT !.tool_uses =
                Append(@, [tool_use_id |-> block.id[1], name |-> block.name[1],
                           input |-> IF block.input = <<>> THEN <<"{}">>
                                     ELSE block.input[1]])]
      [] OTHER -> parts

\* convert_assistant_message: final_content.
FinalContent(parts) ==
    IF parts.thinking_content # <<>>
    THEN IF parts.text_content # <<>>
         THEN TAG_START \o parts.thinking_content \o TAG_END_NL \o parts.text_content
         ELSE TAG_START \o parts.thinking_content \o TAG_END
    ELSE IF parts.text_content = <<>> /\ parts.tool_uses # <<>>
    THEN <<" ">>
    ELSE parts.text_content

convert_assistant_message(msg) ==
    LET RECURSIVE Collect(_, _)
        Collect(blocks, parts) ==
            IF blocks = <<>> THEN parts
            ELSE Collect(Tail(blocks), AddAssistantBlock(parts, Head(blocks)))
        Result(parts) == HistoryAssistantMessage(FinalContent(parts), parts.tool_uses)
    IN CASE msg.content.kind = "string" ->
                Result([thinking_content |-> <<>>, text_content |-> msg.content.text,
                        tool_uses |-> <<>>])
         [] msg.content.kind = "array" ->
                Result(Collect(msg.content.blocks,
                               [thinking_content |-> <<>>, text_content |-> <<>>,
                                tool_uses |-> <<>>]))
         [] OTHER -> Result([thinking_content |-> <<>>, text_content |-> <<>>,
                             tool_uses |-> <<>>])

\* build_history, step 1: the system prompt as a user + assistant pair.
SystemHistory(req, model_id, thinking_prefix) ==
    LET system_content(system) ==
            join([i \in DOMAIN system |-> system[i].text], <<"\n">>)
        final_content(content) ==
            IF thinking_prefix # <<>> /\ ~has_thinking_tags(content)
            THEN thinking_prefix[1] \o <<"\n">> \o content
            ELSE content
        Pair(content) ==
            <<HistoryUserMessage(content, model_id, <<>>, <<>>),
              HistoryAssistantMessage(<<"I will follow these instructions.">>, <<>>)>>
    IN IF req.system # <<>>
       THEN IF system_content(req.system[1]) # <<>>
            THEN Pair(final_content(system_content(req.system[1]) \o <<"\n">>
                                    \o SYSTEM_CHUNKED_POLICY))
            ELSE <<>>
       ELSE IF thinking_prefix # <<>>
       THEN Pair(thinking_prefix[1])
       ELSE <<>>

\* build_history, step 2: the exclusive end of the messages that go to history.
history_end_index(messages) ==
    IF messages # <<>> /\ messages[Len(messages)].role = "assistant"
    THEN Len(messages)
    ELSE saturating_sub(Len(messages), 1)

MutPushEveryAssistant(pairs, msg, model_id) ==
    IF msg.role = "user"
    THEN [pairs EXCEPT !.user_buffer = Append(@, msg)]
    ELSE IF msg.role = "assistant"
    THEN [user_buffer |-> <<>>,
          history |-> pairs.history
                      \o (IF pairs.user_buffer # <<>>
                          THEN <<merge_user_messages(pairs.user_buffer, model_id)>>
                          ELSE <<>>)
                      \o <<convert_assistant_message(msg)>>]
    ELSE pairs

\* build_history, step 2: the body of the loop over the messages.
PairMessage(pairs, msg, model_id) ==
    IF msg.role = "user"
    THEN [pairs EXCEPT !.user_buffer = Append(@, msg)]
    ELSE IF msg.role = "assistant" /\ pairs.user_buffer # <<>>
    THEN [user_buffer |-> <<>>,
          history |-> pairs.history
                      \o <<merge_user_messages(pairs.user_buffer, model_id),
                           convert_assistant_message(msg)>>]
    ELSE pairs

\* build_history, after the loop: the trailing user messages get an "OK".
PairTrailingUsers(pairs, model_id) ==
    IF pairs.user_buffer # <<>>
    THEN pairs.history \o <<merge_user_messages(pairs.user_buffer, model_id),
                            HistoryAssistantMessage(<<"OK">>, <<>>)>>
    ELSE pairs.history

build_history(req, model_id) ==
    LET RECURSIVE Loop(_, _)
        Loop(i, pairs) ==
            IF i >= history_end_index(req.messages) THEN pairs
            ELSE Loop(i + 1, PairMessage(pairs, req.messages[i + 1], model_id))
    IN PairTrailingUsers(
           Loop(0, [user_buffer |-> <<>>,
                    history |-> SystemHistory(req, model_id,
                                              generate_thinking_prefix(req))]),
           model_id)

SESSION_PREFIX == <<"s", "e", "s", "s", "i", "o", "n", "_">>

\* The outcome of a call that may panic: the value is <<>> for None.
Evaluated(value) == [panics |-> FALSE, value |-> value]

Panicked == [panics |-> TRUE, value |-> <<>>]

\* Lines 89-95 of extract_session_id: &session_part[..36] panics when byte 36
\* is not a character boundary.
SessionUuid(session_part) ==
    IF Len(session_part) < 36 THEN Evaluated(<<>>)
    ELSE IF ~is_char_boundary(session_part, 36) THEN Panicked
    ELSE IF Cardinality({k \in 1 .. 36 : session_part[k] = "-"}) = 4
    THEN Evaluated(<<SliceTo(session_part, 36)>>)
    ELSE Evaluated(<<>>)

\* user_id is a string as its bytes.
extract_session_id(user_id) ==
    IF FindFrom(user_id, SESSION_PREFIX, 0) = NoIndex THEN Evaluated(<<>>)
    ELSE SessionUuid(SliceFrom(user_id, FindFrom(user_id, SESSION_PREFIX, 0) + 8))

\* convert_request, step 3: the session of metadata.user_id, else a fresh UUID.
conversation_id(req) ==
    IF req.metadata = <<>> \/ req.metadata[1].user_id = <<>>
    THEN Evaluated(<<"Uuid::new_v4">>)
    ELSE IF extract_session_id(req.metadata[1].user_id[1]).panics THEN Panicked
    ELSE IF extract_session_id(req.metadata[1].user_id[1]).value = <<>>
    THEN Evaluated(<<"Uuid::new_v4">>)
    ELSE Evaluated(extract_session_id(req.metadata[1].user_id[1]).value[1])

\* convert_request, steps 9 to 13, given the history and the pairing.
ConversationState(req, model_id, current, history, pairing) ==
    [conversation_id |-> conversation_id(req).value,
     agent_task_type |-> "vibe",
     chat_trigger_type |-> determine_chat_trigger_type(req),
     current_message |->
         [content |-> current.text,
          model_id |-> model_id,
          origin |-> "AI_EDITOR",
          images |-> current.images,
          context |->
              [tools |-> AddPlaceholderTools(
                             convert_tools(req.tools),
                             collect_history_tool_names(
                                 remove_orphaned_tool_uses(
                                     history, pairing.unpaired_tool_use_ids))),
               tool_results |-> pairing.filtered_results]],
     history |-> remove_orphaned_tool_uses(history, pairing.unpaired_tool_use_ids)]

\* convert_request, step 8.
ValidatedState(req, model_id, current, history) ==
    ConversationState(req, model_id, current, history,
                      validate_tool_pairing(history, current.tool_results))

\* Result<ConversionResult, ConversionError>; a panic of the call is the
\* outcome "panic".
convert_request(req) ==
    IF map_model(req.model) = <<>>
    THEN [ok |-> FALSE, error |-> "UnsupportedModel"]
    ELSE IF req.messages = <<>>
    THEN [ok |-> FALSE, error |-> "EmptyMessages"]
    ELSE IF conversation_id(req).panics
    THEN [ok |-> FALSE, error |-> "panic"]
    ELSE [ok |-> TRUE,
          conversation_state |->
              ValidatedState(req, map_model(req.model)[1],
                             process_message_content(
                                 req.messages[Len(req.messages)].content),
                             build_history(req, map_model(req.model)[1]))]

\* The request before any field is set.
NoRequest ==
    [model |-> <<>>, messages |-> <<>>, system |-> <<>>, tools |-> <<>>,
     thinking |-> <<>>, output_config |-> <<>>, metadata |-> <<>>]

\* ------------------------------------------------ the event-stream frame parser
\* Bytes are the integers 0..255 and a byte slice is a sequence of them.

PRELUDE_SIZE == 12

MIN_MESSAGE_SIZE == PRELUDE_SIZE + 4

MAX_MESSAGE_SIZE == 16 * 1024 * 1024

\* A u32 read from the wire, kept as its two 16-bit halves: the full value
\* of a corrupted length does not fit the checker's integers.
U32(n) == [hi |-> n \div 65536, lo |-> n % 65536]

from_be_bytes(b) == [hi |-> b[1] * 256 + b[2], lo |-> b[3] * 256 + b[4]]

U32Less(a, b) == a.hi < b.hi \/ (a.hi = b.hi /\ a.lo < b.lo)

\* u32 as usize, used once the value is known to be at most MAX_MESSAGE_SIZE.
AsUsize(a) == a.hi * 65536 + a.lo

to_be_bytes(n) ==
    <<(n \div 16777216) % 256, (n \div 65536) % 256, (n \div 256) % 256, n % 256>>

\* crc.rs is not among the sources; crc32 is the standard reflected CRC-32
\* with polynomial 0xEDB88320 and initial and final XOR 0xFFFFFFFF, given here
\* as the four bytes a frame carries, most significant first. A register is
\* the set of the positions (0 the least significant) of its one bits, Poly
\* the polynomial's; Rounds is n rounds of the bit loop (shift right, and XOR
\* the polynomial in when the bit shifted out was one).
crc32(data) ==
    LET Poly == {5, 8, 9, 15, 19, 20, 21, 23, 24, 26, 27, 29, 30, 31}
        Xor(a, b) == {i \in 0..31 : (i \in a) # (i \in b)}
        ByteBits(b) == {i \in 0..7 : (b \div (2 ^ i)) % 2 = 1}
        ShiftRight(c) == {i \in 0..30 : (i + 1) \in c}
        RECURSIVE Rounds(_, _)
        Rounds(c, n) ==
            IF n = 0 THEN c
            ELSE IF 0 \in c THEN Rounds(Xor(ShiftRight(c), Poly), n - 1)
            ELSE Rounds(ShiftRight(c), n - 1)
        RECURSIVE Update(_, _)
        Update(c, i) ==
            IF i > Len(data) \/ c \notin SUBSET (0..31) THEN c
            ELSE Update(Rounds(Xor(c, ByteBits(data[i])), 8), i + 1)
        Bit(c, i, weight) == IF i \in c THEN weight ELSE 0
        Byte(c, low) ==
            Bit(c, low, 1) + Bit(c, low + 1, 2) + Bit(c, low + 2, 4)
            + Bit(c, low + 3, 8) + Bit(c, low + 4, 16) + Bit(c, low + 5, 32)
            + Bit(c, low + 6, 64) + Bit(c, low + 7, 128)
        Bytes(c) == <<Byte(c, 24), Byte(c, 16), Byte(c, 8), Byte(c, 0)>>
    IN Bytes((0..31) \ Update(0..31, 1))

\* header.rs is not among the sources; a header block is a run of records
\* (1 byte name length, the name, 1 byte value-type tag, the value). The tags
\* are numbered as the event-stream encoding numbers them: 0 true, 1 false,
\* 2 int8, 3 int16, 4 int32, 5 int64, 6 byte array, 7 string, 8 timestamp,
\* 9 uuid; a byte array and a string carry a two-byte length first. An unknown
\* tag is InvalidHeaderType, a record cut short is HeaderParseFailed.
\* ValueLength is the bytes the value at data[from..] takes, or -1 when the
\* slice ends first; TagAt is the position of the tag of the record at at.
parse_headers(data, header_length) ==
    LET Ok(headers) == [ok |-> TRUE, headers |-> headers, error |-> "none"]
        Err(error) == [ok |-> FALSE, headers |-> <<>>, error |-> error]
        FixedSize(tag) ==
            CASE tag \in {0, 1} -> 0
              [] tag = 2 -> 1
              [] tag = 3 -> 2
              [] tag = 4 -> 4
              [] tag \in {5, 8} -> 8
              [] tag = 9 -> 16
              [] OTHER -> 2
        ValueLength(from, tag) ==
            IF from + FixedSize(tag) - 1 > Len(data) THEN -1
            ELSE IF tag \notin {6, 7} THEN FixedSize(tag)
            ELSE IF from + 1 + data[from] * 256 + data[from + 1] > Len(data) THEN -1
            ELSE 2 + data[from] * 256 + data[from + 1]
        TagAt(at) == at + data[at] + 1
        Header(at, size) ==
            [name |-> SubSeq(data, at + 1, at + data[at]),
             value_type |-> data[TagAt(at)],
             value |-> SubSeq(data, TagAt(at) + 1, TagAt(at) + size)]
        RECURSIVE Records(_, _)
        Records(at, headers) ==
            IF at > Len(data) THEN Ok(headers)
            ELSE IF TagAt(at) > Len(data) THEN Err("HeaderParseFailed")
            ELSE IF data[TagAt(at)] \notin 0..9 THEN Err("InvalidHeaderType")
            ELSE IF ValueLength(TagAt(at) + 1, data[TagAt(at)]) < 0
            THEN Err("HeaderParseFailed")
            ELSE Records(TagAt(at) + 1 + ValueLength(TagAt(at) + 1, data[TagAt(at)]),
                         Append(headers,
                                Header(at, ValueLength(TagAt(at) + 1,
                                                       data[TagAt(at)]))))
    IN Records(1, <<>>)

NoFrame == [headers |-> <<>>, payload |-> <<>>]

\* What a parser or decoder call returns. kind is "frame" (Ok(Some)), "none"
\* (Ok(None), needs more data), "error" (Err), "ok" (Ok(())) or "end" (the
\* iterator's None).
Returned(kind, error, frame, consumed) ==
    [kind |-> kind, error |-> error, frame |-> frame, consumed |-> consumed]

NeedsMoreData == Returned("none", "none", NoFrame, 0)

ParseErr(error) == Returned("error", error, NoFrame, 0)

\* FrameParser::parse, the stateless parser the decoder calls. Complete is the
\* part from the completeness check on, Body the part from the header bounds
\* check on, where headers_end > total_length - 4 is taken as
\* header_length > total_length - 16.
parse(buffer) ==
    LET HeaderBytes(header_length) ==
            SubSeq(buffer, PRELUDE_SIZE + 1, PRELUDE_SIZE + header_length)
        Headers(header_length) ==
            parse_headers(HeaderBytes(header_length), header_length)
        Body(total_length, header_length) ==
            IF U32Less(U32(total_length - 4 - PRELUDE_SIZE), header_length)
            THEN ParseErr("HeaderParseFailed")
            ELSE IF ~Headers(AsUsize(header_length)).ok
            THEN ParseErr(Headers(AsUsize(header_length)).error)
            ELSE Returned("frame", "none",
                          [headers |-> Headers(AsUsize(header_length)).headers,
                           payload |-> SubSeq(buffer,
                                              PRELUDE_SIZE + AsUsize(header_length) + 1,
                                              total_length - 4)],
                          total_length)
        Complete(total_length, header_length) ==
            IF Len(buffer) < total_length THEN NeedsMoreData
            ELSE IF crc32(SubSeq(buffer, 1, 8)) # SubSeq(buffer, 9, 12)
            THEN ParseErr("PreludeCrcMismatch")
            ELSE IF crc32(SubSeq(buffer, 1, total_length - 4))
                    # SubSeq(buffer, total_length - 3, total_length)
            THEN ParseErr("MessageCrcMismatch")
            ELSE Body(total_length, header_length)
    IN IF Len(buffer) < PRELUDE_SIZE THEN NeedsMoreData
       ELSE IF U32Less(from_be_bytes(SubSeq(buffer, 1, 4)), U32(MIN_MESSAGE_SIZE))
       THEN ParseErr("MessageTooSmall")
       ELSE IF U32Less(U32(MAX_MESSAGE_SIZE), from_be_bytes(SubSeq(buffer, 1, 4)))
       THEN ParseErr("MessageTooLarge")
       ELSE Complete(AsUsize(from_be_bytes(SubSeq(buffer, 1, 4))),
                     from_be_bytes(SubSeq(buffer, 5, 8)))

\* FrameParserState; header_length is kept as the u32 it was read as.
AwaitingPrelude == [kind |-> "AwaitingPrelude", total_length |-> 0, header_length |-> U32(0)]

AwaitingData(total_length, header_length) ==
    [kind |-> "AwaitingData", total_length |-> total_length,
     header_length |-> header_length]

\* What parse_stateful leaves and returns.
ParserCall(state, out) == [state |-> state, out |-> out]

\* FrameParser::reset
parser_reset(state) == AwaitingPrelude

\* The header bytes parse_stateful hands to parse_headers.
StatefulHeaders(state, buffer) ==
    parse_headers(SubSeq(buffer, PRELUDE_SIZE + 1,
                         PRELUDE_SIZE + AsUsize(state.header_length)),
                  AsUsize(state.header_length))

\* parse_headers(..)? in parse_stateful: the error is returned as it is, and
\* the state is left as it was.
HeadersFailed(state, buffer) ==
    ParserCall(state, ParseErr(StatefulHeaders(state, buffer).error))

\* The AwaitingData arm of parse_stateful.
AwaitingDataArm(state, buffer) ==
    IF Len(buffer) < state.total_length THEN ParserCall(state, NeedsMoreData)
    ELSE IF crc32(SubSeq(buffer, 1, state.total_length - 4))
            # SubSeq(buffer, state.total_length - 3, state.total_length)
    THEN ParserCall(parser_reset(state), ParseErr("MessageCrcMismatch"))
    ELSE IF U32Less(U32(state.total_length - 4 - PRELUDE_SIZE), state.header_length)
    THEN ParserCall(parser_reset(state), ParseErr("HeaderParseFailed"))
    ELSE IF ~StatefulHeaders(state, buffer).ok
    THEN HeadersFailed(state, buffer)
    ELSE ParserCall(parser_reset(state),
                    Returned("frame", "none",
                             [headers |-> StatefulHeaders(state, buffer).headers,
                              payload |-> SubSeq(buffer,
                                                 PRELUDE_SIZE
                                                     + AsUsize(state.header_length) + 1,
                                                 state.total_length - 4)],
                             state.total_length))

\* The AwaitingPrelude arm of parse_stateful, and the turn of the loop that
\* follows a valid prelude.
AwaitingPreludeArm(state, buffer) ==
    IF Len(buffer) < PRELUDE_SIZE THEN ParserCall(state, NeedsMoreData)
    ELSE IF U32Less(from_be_bytes(SubSeq(buffer, 1, 4)), U32(MIN_MESSAGE_SIZE))
    THEN ParserCall(parser_reset(state), ParseErr("MessageTooSmall"))
    ELSE IF U32Less(U32(MAX_MESSAGE_SIZE), from_be_bytes(SubSeq(buffer, 1, 4)))
    THEN ParserCall(parser_reset(state), ParseErr("MessageTooLarge"))
    ELSE IF crc32(SubSeq(buffer, 1, 8)) # SubSeq(buffer, 9, 12)
    THEN ParserCall(parser_reset(state), ParseErr("PreludeCrcMismatch"))
    ELSE AwaitingDataArm(AwaitingData(AsUsize(from_be_bytes(SubSeq(buffer, 1, 4))),
                                      from_be_bytes(SubSeq(buffer, 5, 8))),
                         buffer)

\* FrameParser::parse_stateful
parse_stateful(state, buffer) ==
    IF state.kind = "AwaitingPrelude" THEN AwaitingPreludeArm(state, buffer)
    ELSE AwaitingDataArm(state, buffer)

\* The bytes of a well-formed frame, in the layout FrameParser::parse reads.
EncodeFrame(headers, payload) ==
    LET WithCrc(bytes) == bytes \o crc32(bytes)
    IN WithCrc(WithCrc(to_be_bytes(MIN_MESSAGE_SIZE + Len(headers) + Len(payload))
                           \o to_be_bytes(Len(headers)))
                   \o headers \o payload)

\* ------------------------------------------------- the event-stream decoder

DEFAULT_MAX_BUFFER_SIZE == 16 * 1024 * 1024

DEFAULT_MAX_ERRORS == 5

\* EventStreamDecoder::with_config; the capacity only sizes the allocation.
with_config(max_errors, max_buffer_size) ==
    [buffer |-> <<>>, state |-> "Ready", frames_decoded |-> 0, error_count |-> 0,
     max_errors |-> max_errors, max_buffer_size |-> max_buffer_size,
     bytes_skipped |-> 0]

\* EventStreamDecoder::new
NewEventStreamDecoder == with_config(DEFAULT_MAX_ERRORS, DEFAULT_MAX_BUFFER_SIZE)

\* A decoder method's effect: the decoder after the call and the value returned.
DecoderCall(d, out) == [d |-> d, out |-> out]

Unit == Returned("ok", "none", NoFrame, 0)

\* A feed that treats Stopped the way it treats Recovering.
MutFeedResumes(d, data) ==
    IF Len(d.buffer) + Len(data) > d.max_buffer_size
    THEN DecoderCall(d, ParseErr("BufferOverflow"))
    ELSE DecoderCall([d EXCEPT !.buffer = @ \o data,
                               !.state = IF @ \in {"Recovering", "Stopped"}
                                         THEN "Ready" ELSE @],
                     Unit)

\* A feed that leaves Recovering even when it rejects the data.
MutRejectedFeedReadies(d, data) ==
    IF Len(d.buffer) + Len(data) > d.max_buffer_size
    THEN DecoderCall([d EXCEPT !.state = IF @ = "Recovering" THEN "Ready" ELSE @],
                     ParseErr("BufferOverflow"))
    ELSE DecoderCall([d EXCEPT !.buffer = @ \o data,
                               !.state = IF @ = "Recovering" THEN "Ready" ELSE @],
                     Unit)

feed(d, data) ==
    IF Len(d.buffer) + Len(data) > d.max_buffer_size
    THEN DecoderCall(d, ParseErr("BufferOverflow"))
    ELSE DecoderCall([d EXCEPT !.buffer = @ \o data,
                               !.state = IF @ = "Recovering" THEN "Ready" ELSE @],
                     Unit)

\* An advance that drops the whole buffer.
MutAdvanceAll(buffer, cnt) == <<>>

\* BytesMut::advance
advance(buffer, cnt) == SubSeq(buffer, cnt + 1, Len(buffer))

\* A recovery that skips nothing.
MutSkipNothing(d) == d

\* A recovery that skips a byte without counting it.
MutSkipUncounted(d) ==
    IF d.buffer # <<>> THEN [d EXCEPT !.buffer = advance(@, 1)] ELSE d

try_recover(d) ==
    IF d.buffer # <<>>
    THEN [d EXCEPT !.buffer = advance(@, 1), !.bytes_skipped = @ + 1]
    ELSE d

\* Failed is the error arm (e already counts the error), Parsed the match on
\* what FrameParser::parse returned.
decode(d) ==
    LET Failed(e, parsed) ==
            IF e.error_count >= e.max_errors
            THEN DecoderCall([e EXCEPT !.state = "Stopped"], ParseErr("TooManyErrors"))
            ELSE DecoderCall([try_recover(e) EXCEPT !.state = "Recovering"], parsed)
        Parsed(e, parsed) ==
            CASE parsed.kind = "frame" ->
                    DecoderCall([e EXCEPT !.buffer = advance(@, parsed.consumed),
                                          !.state = "Ready",
                                          !.frames_decoded = @ + 1,
                                          !.error_count = 0],
                                parsed)
              [] parsed.kind = "none" ->
                    DecoderCall([e EXCEPT !.state = "Ready"], parsed)
              [] OTHER -> Failed([e EXCEPT !.error_count = @ + 1], parsed)
    IN IF d.state = "Stopped" THEN DecoderCall(d, ParseErr("TooManyErrors"))
       ELSE IF d.buffer = <<>>
       THEN DecoderCall([d EXCEPT !.state = "Ready"], NeedsMoreData)
       ELSE Parsed([d EXCEPT !.state = "Parsing"], parse(d.buffer))

\* DecodeIter::next; Item is the match on what decode returned.
next(d) ==
    LET Item(call) ==
            IF call.out.kind = "none"
            THEN DecoderCall(call.d, Returned("end", "none", NoFrame, 0))
            ELSE call
    IN IF d.state \in {"Stopped", "Recovering"}
       THEN DecoderCall(d, Returned("end", "none", NoFrame, 0))
       ELSE Item(decode(d))

reset(d) ==
    [d EXCEPT !.buffer = <<>>, !.state = "Ready", !.frames_decoded = 0,
              !.error_count = 0, !.bytes_skipped = 0]

\* A resume that also drops the buffered bytes.
MutResumeClears(d) ==
    IF d.state = "Stopped"
    THEN [d EXCEPT !.error_count = 0, !.state = "Ready", !.buffer = <<>>]
    ELSE d

try_resume(d) ==
    IF d.state = "Stopped" THEN [d EXCEPT !.error_count = 0, !.state = "Ready"]
    ELSE d

\* ------------------------------------------------- the streaming translator

VARIABLES
    ctx,        \* the StreamContext of the response
    sse,        \* every SseEvent emitted so far, in order
    inputs,     \* the upstream events given to process_kiro_event so far
    pc,         \* "created", "streaming" or "done": the driver's position
    request,    \* the MessagesRequest given to convert_request
    conversion, \* <<>> before convert_request has run, then <<its result>>
    decoder,    \* the EventStreamDecoder
    returned,   \* the decoder method called last, the state it was called in
                \* and what it returned
    feeds,      \* the number of feed calls so far
    tamper,     \* a buffer with one bit flipped and what FrameParser::parse
                \* made of it
    pending,    \* the upstream text not yet delivered, and whether it is
                \* delivered one character at a time
    serve,      \* the response stream of a handler: the upstream body still to
                \* come, the ping timer, the finished flag and the batches sent
    parser      \* a FrameParser: its state, the buffer of the last
                \* parse_stateful call, what the call returned and the number
                \* of calls

vars ==
    <<ctx, sse, inputs, pc, request, conversion, decoder, returned, feeds, tamper,
      pending, serve, parser>>

NothingReturned == [op |-> "new", from |-> "Ready", out |-> Unit]

NoTamper ==
    [buffer |-> <<>>, field |-> "none", outcome |-> <<>>, header_len |-> 0,
     frame_len |-> 0]

NoPending == [text |-> <<>>, single |-> FALSE]

\* No response stream has been created.
NoServe ==
    [variant |-> "none", body |-> <<>>, ending |-> "end", arrived |-> FALSE,
     ping_due |-> FALSE, finished |-> FALSE, closed |-> FALSE, sent |-> <<>>]

ServeIdle == serve = NoServe

\* No parse_stateful call was made on the FrameParser.
NoParser ==
    [state |-> AwaitingPrelude, buffer |-> <<>>, out |-> NeedsMoreData, calls |-> 0]

FrameParserIdle == parser = NoParser

\* The variables of the frame parser and the decoder, where neither runs.
ParserIdle ==
    /\ decoder = NewEventStreamDecoder
    /\ returned = NothingReturned
    /\ feeds = 0
    /\ tamper = NoTamper

KiroEvent(type) ==
    [type |-> type, content |-> <<>>,
     tool_use |-> [tool_use_id |-> "", name |-> "", input |-> <<>>, stop |-> FALSE],
     context_usage_percentage |-> 0, exception_type |-> ""]

\* AssistantResponse contents: plain text, text long enough to leave the
\* look-behind window (with a two-byte character), the two tags alone, a blank
\* chunk, a complete thinking segment without the trailing newlines, text before
\* a start tag, and the empty content.
Contents ==
    {<<"h", "i">>,
     <<"h", "e", "l", "l", "o", " ", "C3", "A9", " ", "w", "o", "r", "l", "d">>,
     TAG_START,
     TAG_END,
     <<"\n", "\n">>,
     TAG_START \o <<"\n", "a", "b", "c">> \o TAG_END,
     <<"x">> \o TAG_START \o <<"a">>,
     <<>>}

ToolUses ==
    {[tool_use_id |-> id, name |-> "Read", input |-> f.input, stop |-> f.stop] :
        id \in {"A", "B"},
        f \in {[input |-> <<"{">>, stop |-> FALSE],
               [input |-> <<>>, stop |-> TRUE],
               [input |-> <<"{", "}">>, stop |-> TRUE]}}

KiroEvents ==
    {[KiroEvent("AssistantResponse") EXCEPT !.content = t] : t \in Contents}
    \cup {[KiroEvent("ToolUse") EXCEPT !.tool_use = t] : t \in ToolUses}
    \cup {[KiroEvent("ContextUsage") EXCEPT !.context_usage_percentage = p] :
             p \in {50, 100}}
    \cup {[KiroEvent("Exception") EXCEPT !.exception_type = x] :
             x \in {"ContentLengthExceededException", "ThrottlingException"}}
    \cup {KiroEvent("Error"), KiroEvent("Metering")}

\* The variables of the streaming translator and of the converter, where
\* neither runs.
StreamIdle ==
    /\ ctx = NewStreamContext(1, FALSE)
    /\ sse = <<>>
    /\ inputs = <<>>
    /\ pc = "created"
    /\ pending = NoPending

ConvIdle ==
    /\ request = NoRequest
    /\ conversion = <<>>

InitStream ==
    /\ ServeIdle
    /\ FrameParserIdle
    /\ ctx \in {NewStreamContext(1, thinking_enabled) : thinking_enabled \in BOOLEAN}
    /\ sse = <<>>
    /\ inputs = <<>>
    /\ pc = "created"
    /\ request = NoRequest
    /\ conversion = <<>>
    /\ ParserIdle
    /\ pending = NoPending

\* The effect of a StreamContext call on the context and on the emitted sequence.
Returns(r) ==
    /\ ctx' = r.c
    /\ sse' = sse \o r.events

\* handlers.rs: the context is created and generate_initial_events is called.
GenerateInitialEvents ==
    /\ pc = "created"
    /\ Returns(generate_initial_events(Call(ctx)))
    /\ pc' = "streaming"
    /\ UNCHANGED <<parser, serve, inputs, request, conversion, decoder, returned, feeds, tamper,
                 pending>>

\* handlers.rs: one decoded upstream event goes through process_kiro_event.
ProcessKiroEvent ==
    /\ pc = "streaming"
    /\ Len(inputs) < MaxEvents
    /\ \E event \in KiroEvents :
          /\ Returns(process_kiro_event(Call(ctx), event))
          /\ inputs' = Append(inputs, event)
    /\ UNCHANGED <<parser, serve, pc, request, conversion, decoder, returned, feeds, tamper, pending>>

\* handlers.rs: the upstream body ended or failed; generate_final_events is called.
GenerateFinalEvents ==
    /\ pc = "streaming"
    /\ \E order \in IterationOrders(FinalFlush(Call(ctx)).c.state_manager.active_blocks) :
          Returns(generate_final_events(Call(ctx), order))
    /\ pc' = "done"
    /\ UNCHANGED <<parser, serve, inputs, request, conversion, decoder, returned, feeds, tamper,
                 pending>>

NextStream == GenerateInitialEvents \/ ProcessKiroEvent \/ GenerateFinalEvents

SpecStream == InitStream /\ [][NextStream]_vars

\* StreamContext keeps at most one text block open, so the order in which
\* handle_content_block_start closes the open text blocks is immaterial.
AtMostOneOpenText == Cardinality(OpenTextBlocks(ctx.state_manager.active_blocks)) <= 1

\* ----------------------------------------------- claims on the SSE sequence

\* The positions of the emitted sequence `log` that hold an event of this name.
Positions(log, event) == {i \in 1 .. Len(log) : log[i].event = event}

IsBlockStart(e, index) == e.event = "content_block_start" /\ e.index = index

IsBlockStop(e, index) == e.event = "content_block_stop" /\ e.index = index

\* C1: once generate_final_events has run, the emitted sequence holds message_start
\* exactly once and first, message_delta exactly once, message_stop exactly once
\* and last, and message_delta after every content_block_stop.
C1_MessageFraming ==
    pc = "done" =>
        /\ Positions(sse, "message_start") = {1}
        /\ Cardinality(Positions(sse, "message_delta")) = 1
        /\ Positions(sse, "message_stop") = {Len(sse)}
        /\ \A i \in Positions(sse, "content_block_stop") :
              \A j \in Positions(sse, "message_delta") : i < j

\* A finished response in which several content blocks were stopped.
C1_Witness ==
    /\ pc = "done"
    /\ Cardinality(Positions(sse, "content_block_stop")) >= 2

\* C2: per block index, content_block_start is emitted at most once, every
\* content_block_delta comes after the block's start and before its stop, and
\* content_block_stop is emitted at most once and only for a started block.
C2_BlockLifecycle ==
    \A i \in 1 .. Len(sse) :
        /\ sse[i].event = "content_block_start" =>
              \A j \in 1 .. (i - 1) : ~IsBlockStart(sse[j], sse[i].index)
        /\ sse[i].event = "content_block_delta" =>
              /\ \E j \in 1 .. (i - 1) : IsBlockStart(sse[j], sse[i].index)
              /\ \A j \in 1 .. (i - 1) : ~IsBlockStop(sse[j], sse[i].index)
        /\ sse[i].event = "content_block_stop" =>
              /\ \E j \in 1 .. (i - 1) : IsBlockStart(sse[j], sse[i].index)
              /\ \A j \in 1 .. (i - 1) : ~IsBlockStop(sse[j], sse[i].index)

\* A finished response with a thinking block that got thinking deltas (built
\* without the state manager) and was stopped, and a tool_use block with input.
C2_Witness ==
    /\ pc = "done"
    /\ \E i, j \in 1 .. Len(sse) :
          /\ i < j
          /\ sse[i].kind = "thinking_delta" /\ sse[i].text # <<>>
          /\ IsBlockStop(sse[j], sse[i].index)
    /\ \E i \in 1 .. Len(sse) : sse[i].kind = "input_json_delta"

\* C3: content blocks are emitted one after another: whenever a start, delta or
\* stop of a block is emitted, every other block started before it has already
\* been stopped.
C3_OneBlockAtATime ==
    \A i \in 1 .. Len(sse) :
        sse[i].event \in {"content_block_start", "content_block_delta",
                          "content_block_stop"} =>
            \A j \in 1 .. (i - 1) :
                (sse[j].event = "content_block_start" /\ sse[j].index # sse[i].index) =>
                    \E k \in (j + 1) .. (i - 1) : IsBlockStop(sse[k], sse[j].index)

\* The stop_reason an upstream event records: max_tokens for a
\* ContentLengthExceededException, model_context_window_exceeded for a ContextUsage
\* of 100% or more.
Recorded(event) ==
    IF event.type = "Exception" /\ event.exception_type = "ContentLengthExceededException"
    THEN "max_tokens"
    ELSE IF event.type = "ContextUsage" /\ event.context_usage_percentage >= 100
         THEN "model_context_window_exceeded"
         ELSE NoReason

RecordedPositions == {i \in 1 .. Len(inputs) : Recorded(inputs[i]) # NoReason}

LastRecorded ==
    IF RecordedPositions = {} THEN NoReason
    ELSE Recorded(inputs[CHOOSE i \in RecordedPositions :
                            \A j \in RecordedPositions : j <= i])

ToolUseStarted(log) ==
    \E i \in 1 .. Len(log) :
        log[i].event = "content_block_start" /\ log[i].kind = "tool_use"

\* The stop_reason carried by the message_delta of the emitted sequence.
FinalStopReason(log) ==
    log[CHOOSE i \in 1 .. Len(log) : log[i].event = "message_delta"].stop_reason

\* C4 as stated: the recorded value when one was recorded, otherwise tool_use when
\* a tool_use block was started, otherwise end_turn.
C4_StopReasonAsStated ==
    pc = "done" =>
        IF RecordedPositions # {}
        THEN FinalStopReason(sse) \in {Recorded(inputs[i]) : i \in RecordedPositions}
        ELSE IF ToolUseStarted(sse)
             THEN FinalStopReason(sse) = "tool_use"
             ELSE FinalStopReason(sse) = "end_turn"

\* A thinking block was started and the only text of the whole response `after`
\* is the single space synthesized by finalization: no text and no tool_use
\* block was started in `before` (the sequence up to finalization), and the
\* final flush sent no text of its own.
ThinkingOnly(before, after) ==
    /\ \E i \in 1 .. Len(after) :
          after[i].event = "content_block_start" /\ after[i].kind = "thinking"
    /\ \A i \in 1 .. Len(before) :
          before[i].event = "content_block_start" => before[i].kind = "thinking"
    /\ \A i \in 1 .. Len(after) :
          after[i].kind = "text_delta" => after[i].text = <<" ">>

\* C4, amended: finalization sets max_tokens when only a thinking block was
\* produced; otherwise the most recently recorded value; otherwise tool_use when
\* a tool_use block was started; otherwise end_turn.
C4_StopReason ==
    [][(pc = "streaming" /\ pc' = "done") =>
          FinalStopReason(sse') =
              IF ThinkingOnly(sse, sse') THEN "max_tokens"
              ELSE IF LastRecorded # NoReason THEN LastRecorded
              ELSE IF ToolUseStarted(sse') THEN "tool_use"
              ELSE "end_turn"]_vars

\* A finished thinking-only response: max_tokens replaces the recorded
\* model_context_window_exceeded.
C4_Witness ==
    /\ pc = "done"
    /\ LastRecorded = "model_context_window_exceeded"
    /\ FinalStopReason(sse) = "max_tokens"


\* The kinds of the content blocks started in the sequence.
StartedKinds(log) ==
    {log[i].kind : i \in {j \in 1 .. Len(log) : log[j].event = "content_block_start"}}

\* The sequence ends with a thinking block from its start to its stop, a text
\* block whose only delta is a single space, message_delta with max_tokens and
\* message_stop.
EndsWithPaddedText(log) ==
    /\ Len(log) >= 7
    /\ log[Len(log)].event = "message_stop"
    /\ log[Len(log) - 1].event = "message_delta"
    /\ log[Len(log) - 1].stop_reason = "max_tokens"
    /\ log[Len(log) - 2].event = "content_block_stop"
    /\ log[Len(log) - 3].kind = "text_delta"
    /\ log[Len(log) - 3].text = <<" ">>
    /\ log[Len(log) - 4].event = "content_block_start"
    /\ log[Len(log) - 4].kind = "text"
    /\ log[Len(log) - 2].index = log[Len(log) - 4].index
    /\ log[Len(log) - 3].index = log[Len(log) - 4].index
    /\ log[Len(log) - 5].event = "content_block_stop"
    /\ \E i \in 1 .. (Len(log) - 6) :
          /\ log[i].event = "content_block_start"
          /\ log[i].kind = "thinking"
          /\ log[i].index = log[Len(log) - 5].index
          /\ \A j \in (i + 1) .. (Len(log) - 6) : log[j].index = log[i].index

\* C16: with thinking enabled, when only a thinking block was started before
\* finalization, the finished sequence is the complete thinking block, a text
\* block holding the single delta " ", message_delta with max_tokens and
\* message_stop; when a text or tool_use block was started, finalization sends
\* no single-space delta and the stop_reason is the ordinary one.
C16_ThinkingOnlyPadding ==
    [][(pc = "streaming" /\ pc' = "done" /\ ctx.thinking_enabled) =>
          IF StartedKinds(sse) = {"thinking"}
          THEN EndsWithPaddedText(sse')
          ELSE StartedKinds(sse) # {} =>
                  /\ \A i \in (Len(sse) + 1) .. Len(sse') : sse'[i].text # <<" ">>
                  /\ FinalStopReason(sse') =
                        IF LastRecorded # NoReason THEN LastRecorded
                        ELSE IF ToolUseStarted(sse') THEN "tool_use"
                        ELSE "end_turn"]_vars

\* The events of the sequence that carry the block index.
BlockEvents(log, index) == SelectSeq(log, LAMBDA e : e.index = index)

\* The indexes of the thinking blocks of the sequence that were stopped.
ClosedThinkingBlocks(log) ==
    {log[i].index : i \in {j \in 1 .. Len(log) :
        /\ log[j].event = "content_block_start"
        /\ log[j].kind = "thinking"
        /\ \E k \in (j + 1) .. Len(log) :
               log[k].event = "content_block_stop" /\ log[k].index = log[j].index}}

\* C17: the last three events of every closed thinking block are an empty
\* thinking_delta, a signature_delta and content_block_stop, in this order.
C17_ThinkingBlockClose ==
    \A index \in ClosedThinkingBlocks(sse) :
        /\ Len(BlockEvents(sse, index)) >= 4
        /\ BlockEvents(sse, index)[Len(BlockEvents(sse, index))].event
               = "content_block_stop"
        /\ BlockEvents(sse, index)[Len(BlockEvents(sse, index)) - 1].kind
               = "signature_delta"
        /\ BlockEvents(sse, index)[Len(BlockEvents(sse, index)) - 2].kind
               = "thinking_delta"
        /\ BlockEvents(sse, index)[Len(BlockEvents(sse, index)) - 2].text = <<>>


\* The event, kind and block index of every event of the sequence.
Shape(log) == [i \in 1 .. Len(log) |-> <<log[i].event, log[i].kind, log[i].index>>]

\* Non-thinking mode: one AssistantResponse with text, then one complete ToolUse
\* with input, then end of stream.
TextThenTool ==
    /\ pc = "done"
    /\ ~ctx.thinking_enabled
    /\ Len(inputs) = 2
    /\ inputs[1].type = "AssistantResponse"
    /\ inputs[1].content # <<>>
    /\ inputs[2].type = "ToolUse"
    /\ inputs[2].tool_use.input # <<>>
    /\ inputs[2].tool_use.stop

\* C18: every text block started before a tool_use content_block_start has its
\* content_block_stop before it; text followed by a complete tool use and end
\* of stream yields message_start, text block 0 (start, delta, stop), tool_use
\* block 1 (start, delta, stop), message_delta with tool_use, message_stop.
C18_TextClosedBeforeToolUse ==
    /\ \A i \in 1 .. Len(sse) :
          (sse[i].event = "content_block_start" /\ sse[i].kind = "tool_use")
              => \A j \in 1 .. (i - 1) :
                    (sse[j].event = "content_block_start" /\ sse[j].kind = "text")
                        => \E k \in (j + 1) .. (i - 1) :
                              /\ sse[k].event = "content_block_stop"
                              /\ sse[k].index = sse[j].index
    /\ TextThenTool
          => /\ Shape(sse) = << <<"message_start", "", NoIndex>>,
                                <<"content_block_start", "text", 0>>,
                                <<"content_block_delta", "text_delta", 0>>,
                                <<"content_block_stop", "", 0>>,
                                <<"content_block_start", "tool_use", 1>>,
                                <<"content_block_delta", "input_json_delta", 1>>,
                                <<"content_block_stop", "", 1>>,
                                <<"message_delta", "", NoIndex>>,
                                <<"message_stop", "", NoIndex>> >>
             /\ sse[3].text = inputs[1].content
             /\ sse[5].id = inputs[2].tool_use.tool_use_id
             /\ sse[6].text = inputs[2].tool_use.input
             /\ sse[8].stop_reason = "tool_use"

\* The scenario has run to its end.
C18_Witness == TextThenTool /\ Len(sse) = 9

\* C19: in non-thinking mode an AssistantResponse with content emits, last,
\* a text_delta with exactly that content to a text block that is started and
\* not stopped; the block is the open one, or a block with a fresh index
\* started by this event when no text block is open.
C19_TextNeverDropped ==
    [][(/\ ~ctx.thinking_enabled
        /\ Len(inputs') = Len(inputs) + 1
        /\ inputs'[Len(inputs')].type = "AssistantResponse"
        /\ inputs'[Len(inputs')].content # <<>>)
          => /\ Len(sse') > Len(sse)
             /\ sse'[Len(sse')].kind = "text_delta"
             /\ sse'[Len(sse')].text = inputs'[Len(inputs')].content
             /\ sse'[Len(sse')].index \in OpenTextBlocks(ctx'.state_manager.active_blocks)
             /\ IF OpenTextBlocks(ctx.state_manager.active_blocks) # {}
                THEN /\ Len(sse') = Len(sse) + 1
                     /\ sse'[Len(sse')].index
                            \in OpenTextBlocks(ctx.state_manager.active_blocks)
                ELSE /\ Len(sse') = Len(sse) + 2
                     /\ sse'[Len(sse) + 1].event = "content_block_start"
                     /\ sse'[Len(sse) + 1].kind = "text"
                     /\ sse'[Len(sse) + 1].index = sse'[Len(sse')].index
                     /\ \A i \in 1 .. Len(sse) :
                            sse[i].index # sse'[Len(sse')].index]_vars

\* Text after a tool use went to a second text block.
C19_Witness ==
    /\ ~ctx.thinking_enabled
    /\ \E i \in 1 .. Len(sse) :
          /\ sse[i].event = "content_block_start"
          /\ sse[i].kind = "tool_use"
          /\ \E j \in (i + 1) .. (Len(sse) - 1) :
                /\ sse[j].event = "content_block_start"
                /\ sse[j].kind = "text"
                /\ sse[j + 1].kind = "text_delta"
                /\ sse[j + 1].text # <<>>


\* The events `tail` of one process_tool_use call hold, at position k, a
\* text_delta with the held text, then the stop of its block, then (for a tool
\* use seen for the first time) the tool_use start, and no tool_use start
\* before.
FlushedAt(tail, k, held, fresh) ==
    /\ Len(tail) >= k + 1
    /\ tail[k].kind = "text_delta"
    /\ tail[k].text = held
    /\ tail[k + 1].event = "content_block_stop"
    /\ tail[k + 1].index = tail[k].index
    /\ fresh => /\ Len(tail) >= k + 2
                /\ tail[k + 2].event = "content_block_start"
                /\ tail[k + 2].kind = "tool_use"
    /\ \A i \in (k + 2) .. Len(tail) :
          tail[i].kind \notin {"text_delta", "text"}

\* The held text leaves first, in the open text block or in one started for it.
HeldTextFlushed(tail, held, fresh) ==
    \/ FlushedAt(tail, 1, held, fresh)
    \/ /\ Len(tail) >= 1
       /\ tail[1].event = "content_block_start"
       /\ tail[1].kind = "text"
       /\ FlushedAt(tail, 2, held, fresh)
       /\ tail[2].index = tail[1].index

\* C21: with thinking enabled, a ToolUse that arrives while text is held back
\* (not inside thinking, thinking not extracted, buffer not empty) emits the
\* whole held text as one text_delta, then the stop of that text block, and
\* only then the tool_use content_block_start.
C21_HeldTextBeforeToolUse ==
    [][(/\ ctx.thinking_enabled
        /\ ~ctx.in_thinking_block
        /\ ~ctx.thinking_extracted
        /\ ctx.thinking_buffer # <<>>
        /\ Len(inputs') = Len(inputs) + 1
        /\ inputs'[Len(inputs')].type = "ToolUse")
          => HeldTextFlushed(SubSeq(sse', Len(sse) + 1, Len(sse')),
                             ctx.thinking_buffer,
                             inputs'[Len(inputs')].tool_use.tool_use_id
                                 \notin DOMAIN ctx.tool_block_indices)]_vars

\* Held text was flushed by a ToolUse: text_delta, stop, tool_use start.
C21_Witness ==
    /\ ctx.thinking_enabled
    /\ Len(inputs) = 2
    /\ inputs[1].type = "AssistantResponse"
    /\ inputs[2].type = "ToolUse"
    /\ \E i \in 1 .. (Len(sse) - 2) :
          /\ sse[i].kind = "text_delta"
          /\ sse[i].text = inputs[1].content
          /\ sse[i + 1].event = "content_block_stop"
          /\ sse[i + 2].kind = "tool_use"

\* An upstream event that only records something: a ContextUsage or a
\* ContentLengthExceededException.
Recording(event) ==
    \/ event.type = "ContextUsage"
    \/ event.type = "Exception"
       /\ event.exception_type = "ContentLengthExceededException"

\* The context c with the stop_reason and the context_input_tokens of d.
WithRecordsOf(c, d) ==
    [c EXCEPT !.state_manager.stop_reason = d.state_manager.stop_reason,
              !.context_input_tokens = d.context_input_tokens]

\* The context `after` holds what the event records, and nothing else of
\* `before` has changed.
OnlyRecorded(before, after, event) ==
    /\ after = WithRecordsOf(before, after)
    /\ after.state_manager.stop_reason =
           IF Recorded(event) # NoReason THEN Recorded(event)
           ELSE before.state_manager.stop_reason
    /\ after.context_input_tokens =
           IF event.type = "ContextUsage"
           THEN (event.context_usage_percentage * CONTEXT_WINDOW_SIZE) \div 100
           ELSE before.context_input_tokens

\* The calls a and b (the same event on two contexts) emit the same events and
\* leave contexts that differ in the two records only.
SameTranslation(a, b) ==
    /\ a.events = b.events
    /\ a.c = WithRecordsOf(b.c, a.c)

UsagePositions == {i \in 1 .. Len(inputs) : inputs[i].type = "ContextUsage"}

\* The input_tokens of the final message_delta: from the last ContextUsage, or
\* the estimate the context was created with when there was none.
ExpectedInputTokens ==
    IF UsagePositions = {} THEN ctx.input_tokens
    ELSE (inputs[CHOOSE i \in UsagePositions : \A j \in UsagePositions : j <= i]
              .context_usage_percentage * CONTEXT_WINDOW_SIZE) \div 100

\* C25: a ContentLengthExceededException and a ContextUsage (100% and more
\* included) emit nothing and do not end the stream; they record a stop_reason
\* and, for ContextUsage, the input tokens, and change nothing else, so that
\* every event that can follow is translated as it would have been; the final
\* message_delta carries the input_tokens of the last ContextUsage instead of
\* the estimate.
C25_RecordingEventsAreSilent ==
    [][/\ (Len(inputs') = Len(inputs) + 1 /\ Recording(inputs'[Len(inputs')]))
           => /\ sse' = sse
              /\ pc' = "streaming"
              /\ OnlyRecorded(ctx, ctx', inputs'[Len(inputs')])
              /\ Len(inputs') < MaxEvents
                    => \A event \in KiroEvents :
                          SameTranslation(process_kiro_event(Call(ctx'), event),
                                          process_kiro_event(Call(ctx), event))
       /\ pc' = "done"
           => sse'[CHOOSE i \in 1 .. Len(sse') : sse'[i].event = "message_delta"]
                  .input_tokens = ExpectedInputTokens]_vars

\* A ContextUsage of 100% and a ContentLengthExceededException arrived, text
\* was translated after them, and the final message_delta carries 200000 input
\* tokens.
C25_Witness ==
    /\ pc = "done"
    /\ Len(inputs) = 3
    /\ inputs[1].type = "ContextUsage"
    /\ inputs[1].context_usage_percentage = 100
    /\ inputs[2].type = "Exception"
    /\ Recording(inputs[2])
    /\ inputs[3].type = "AssistantResponse"
    /\ \E i \in 1 .. Len(sse) : sse[i].kind = "text_delta" /\ sse[i].text # <<>>
    /\ \E i \in 1 .. Len(sse) :
          sse[i].event = "message_delta" /\ sse[i].input_tokens = CONTEXT_WINDOW_SIZE

\* ------------------------------ the translator on one text cut into chunks

\* Number of upstream events of a response whose chunks are cut freely.
MaxChunks == 3

E_ACUTE == <<"C3", "A9">>

EURO == <<"E2", "82", "AC">>

\* A complete thinking segment followed by text: leading blank text w, the
\* start tag, an optional newline nl, the thinking text t, the end tag with its
\* two newlines, and the text x.
Segment(w, nl, t, x) == [w |-> w, nl |-> nl, t |-> t, x |-> x]

SegmentText(s) == s.w \o TAG_START \o s.nl \o s.t \o TAG_END_NL \o s.x

\* The last segment's thinking text is longer than the look-behind window.
Segments ==
    {Segment(<<>>, <<>>, <<"a", "\n">>, <<" ">>),
     Segment(<<"\n", "\n">>, <<"\n">>, <<"a", " ", "b">>, <<" ", "y">>),
     Segment(<<>>, <<>>, EURO \o E_ACUTE \o EURO \o E_ACUTE \o EURO \o E_ACUTE, EURO)}

\* The texts the upstream sends: multi-byte text with no tag, multi-byte text
\* in an unfinished thinking block, thinking text whose end tag follows a quote
\* character, and the segments.
StreamTexts ==
    {<<"a">> \o E_ACUTE \o EURO \o E_ACUTE \o EURO \o E_ACUTE \o EURO \o E_ACUTE
         \o EURO,
     TAG_START \o EURO \o E_ACUTE \o EURO \o E_ACUTE \o EURO \o E_ACUTE \o EURO
         \o E_ACUTE,
     TAG_START \o <<"a", ".">> \o TAG_END \o <<"\n">>}
    \cup {SegmentText(s) : s \in Segments}

\* The response has thinking enabled; its text arrives cut at any character
\* boundaries into at most MaxChunks events, or one character at a time.
InitChunks ==
    /\ ServeIdle
    /\ FrameParserIdle
    /\ ctx = NewStreamContext(1, TRUE)
    /\ sse = <<>>
    /\ inputs = <<>>
    /\ pc = "created"
    /\ pending \in {[text |-> text, single |-> single] :
                       text \in StreamTexts, single \in BOOLEAN}
    /\ ConvIdle
    /\ ParserIdle

\* The length in bytes of the first character of a non-empty text.
FirstCharLen(text) ==
    CHOOSE n \in 1..Len(text) :
        /\ is_char_boundary(text, n)
        /\ \A m \in 1..(n - 1) : ~is_char_boundary(text, m)

\* handlers.rs: the next AssistantResponse event carries the next n bytes.
DeliverChunk ==
    /\ pc = "streaming"
    /\ pending.text # <<>>
    /\ pending.single \/ Len(inputs) < MaxChunks
    /\ \E n \in 1..Len(pending.text) :
          /\ is_char_boundary(pending.text, n)
          /\ pending.single => n = FirstCharLen(pending.text)
          /\ Returns(process_kiro_event(
                         Call(ctx),
                         [KiroEvent("AssistantResponse") EXCEPT
                             !.content = SliceTo(pending.text, n)]))
          /\ inputs' = Append(inputs,
                              [KiroEvent("AssistantResponse") EXCEPT
                                  !.content = SliceTo(pending.text, n)])
          /\ pending' = [pending EXCEPT !.text = SliceFrom(@, n)]
    /\ UNCHANGED <<parser, serve, pc, request, conversion, decoder, returned, feeds, tamper>>

\* handlers.rs: a ToolUse event arrives between two chunks.
ToolUseArrives ==
    /\ pc = "streaming"
    /\ ~pending.single
    /\ Len(inputs) < MaxChunks
    /\ \E tool_use \in {t \in ToolUses : t.tool_use_id = "A" /\ t.stop} :
          /\ Returns(process_kiro_event(
                         Call(ctx), [KiroEvent("ToolUse") EXCEPT !.tool_use = tool_use]))
          /\ inputs' = Append(inputs,
                              [KiroEvent("ToolUse") EXCEPT !.tool_use = tool_use])
    /\ UNCHANGED <<parser, serve, pc, pending, request, conversion, decoder, returned, feeds, tamper>>

NextChunks ==
    GenerateInitialEvents \/ DeliverChunk \/ ToolUseArrives \/ GenerateFinalEvents

SpecChunks == InitChunks /\ [][NextChunks]_vars

\* ---------------------------------------------- claims on the thinking extractor

\* The bytes of s are whole characters of the alphabet: every lead byte has
\* its continuation bytes and every continuation byte its lead byte.
ValidUtf8(s) ==
    \A i \in 1..Len(s) :
        /\ s[i] = "C3" => i < Len(s) /\ s[i + 1] = "A9"
        /\ s[i] = "A9" => i > 1 /\ s[i - 1] = "C3"
        /\ s[i] = "E2" => i + 1 < Len(s) /\ s[i + 1] = "82" /\ s[i + 2] = "AC"
        /\ s[i] = "82" => i > 1 /\ s[i - 1] = "E2"
        /\ s[i] = "AC" => i > 2 /\ s[i - 1] = "82" /\ s[i - 2] = "E2"

\* C14: with valid UTF-8 text cut at character boundaries, the extractor cuts
\* its buffer only at character boundaries: the buffer it keeps and the text
\* of every text_delta and thinking_delta it emits (from
\* process_content_with_thinking, the tool-use boundary and the final flush)
\* are valid UTF-8, and no slice is out of range.
C14_Utf8Preserved ==
    /\ ValidUtf8(ctx.thinking_buffer)
    /\ \A i \in 1..Len(sse) :
          sse[i].kind \in {"text_delta", "thinking_delta"} => ValidUtf8(sse[i].text)

\* The look-behind cut fell inside a character and was moved back: more than
\* the 10 bytes of a start tag, or the 13 of an end tag with its newlines,
\* stay in the buffer, which begins with a multi-byte character, after text
\* was sent.
C14_Witness ==
    /\ ctx.thinking_buffer # <<>>
    /\ ctx.thinking_buffer[1] \in {"C3", "E2"}
    /\ \/ ~ctx.in_thinking_block /\ ~ctx.thinking_extracted
          /\ Len(ctx.thinking_buffer) > Len(TAG_START)
          /\ \E i \in 1..Len(sse) : sse[i].kind = "text_delta"
       \/ ctx.in_thinking_block
          /\ Len(ctx.thinking_buffer) > Len(TAG_END_NL)
          /\ \E i \in 1..Len(sse) : sse[i].kind = "thinking_delta"

\* The texts of the deltas of one kind, concatenated in emission order.
RECURSIVE DeltaText(_, _)
DeltaText(events, kind) ==
    IF events = <<>> THEN <<>>
    ELSE (IF Head(events).kind = kind THEN Head(events).text ELSE <<>>)
             \o DeltaText(Tail(events), kind)

\* The contents of the AssistantResponse events, concatenated.
RECURSIVE Delivered(_)
Delivered(events) ==
    IF events = <<>> THEN <<>> ELSE Head(events).content \o Delivered(Tail(events))

\* The finished response to the whole of the segment s, sent as text only.
SegmentDone(s) ==
    /\ pc = "done"
    /\ pending.text = <<>>
    /\ \A i \in 1..Len(inputs) : inputs[i].type = "AssistantResponse"
    /\ Delivered(inputs) = SegmentText(s)

\* C15: however a complete thinking segment followed by text is cut into
\* chunks, after finalization the thinking_delta texts joined are exactly the
\* thinking text, the text_delta texts joined are exactly the text after the
\* segment, and no delta holds either tag.
C15_SegmentSplitsAgree ==
    \A s \in Segments :
        SegmentDone(s)
            => /\ DeltaText(sse, "thinking_delta") = s.t
               /\ DeltaText(sse, "text_delta") = s.x
               /\ \A i \in 1..Len(sse) :
                      sse[i].kind \in {"thinking_delta", "text_delta"}
                          => /\ FindFrom(sse[i].text, TAG_START, 0) = NoIndex
                             /\ FindFrom(sse[i].text, TAG_END, 0) = NoIndex

\* A segment arrived one character at a time and its thinking text left in
\* more than one thinking_delta.
C15_Witness ==
    /\ \E s \in Segments : SegmentDone(s)
    /\ pending.single
    /\ Cardinality({i \in 1..Len(sse) :
                        sse[i].kind = "thinking_delta" /\ sse[i].text # <<>>}) > 1

\* The context and the events emitted after generate_initial_events and the
\* first n upstream events.
RECURSIVE Replayed(_)
Replayed(n) ==
    IF n = 0
    THEN generate_initial_events(Call(NewStreamContext(1, ctx.thinking_enabled)))
    ELSE process_kiro_event(Replayed(n - 1), inputs[n])

\* The positions of an end tag that only whitespace follows.
EndTagsAtEnd(buffer) ==
    {p \in 0 .. (Len(buffer) - Len(TAG_END)) :
        /\ SubSeq(buffer, p + 1, p + Len(TAG_END)) = TAG_END
        /\ IsBlank(SliceFrom(buffer, p + Len(TAG_END)))}

\* The context `before` is inside the thinking block.
InThinking(before) == before.c.thinking_enabled /\ before.c.in_thinking_block

\* The event that took `before` to `after` stopped the thinking block, before
\* any tool_use block it started, and no thinking_delta or text_delta of the
\* whole sequence holds the end tag.
ClosedAtToolUse(before, after) ==
    /\ \E i \in (Len(before.events) + 1) .. Len(after.events) :
          /\ sse[i].event = "content_block_stop"
          /\ sse[i].index = before.c.thinking_block_index
          /\ \A j \in (Len(before.events) + 1) .. Len(after.events) :
                (sse[j].event = "content_block_start" /\ sse[j].kind = "tool_use")
                    => i < j
    /\ \A i \in 1 .. Len(sse) :
          sse[i].kind \in {"thinking_delta", "text_delta"}
              => FindFrom(sse[i].text, TAG_END, 0) = NoIndex

\* The end tag at the end of the buffer has no quote character before it.
Unquoted(buffer) ==
    \E p \in EndTagsAtEnd(buffer) : ~(p > 0 /\ is_quote_char(buffer, p - 1))

EndTagCloses(before, tool_use) ==
    (InThinking(before) /\ EndTagsAtEnd(before.c.thinking_buffer) # {})
        => ClosedAtToolUse(before, process_tool_use(before, tool_use))

UnquotedEndTagCloses(before, tool_use) ==
    (InThinking(before) /\ Unquoted(before.c.thinking_buffer))
        => ClosedAtToolUse(before, process_tool_use(before, tool_use))

\* C20 as stated: a ToolUse that arrives inside the thinking block while the
\* buffer ends with the end tag followed only by whitespace closes the thinking
\* block before the tool_use block starts, and the end tag is never emitted.
C20_EndTagClosesAtToolUse ==
    \A n \in 1 .. Len(inputs) :
        inputs[n].type = "ToolUse"
            => EndTagCloses(Replayed(n - 1), inputs[n].tool_use)

\* C20, amended: the same when the end tag is not preceded by a quote character.
C20_UnquotedEndTagClosesAtToolUse ==
    \A n \in 1 .. Len(inputs) :
        inputs[n].type = "ToolUse"
            => UnquotedEndTagCloses(Replayed(n - 1), inputs[n].tool_use)

\* A ToolUse arrived behind an end tag with thinking content before it and a
\* newline after it, and closed the thinking block.
ClosedBehindContent(before, tool_use) ==
    /\ InThinking(before)
    /\ \E p \in EndTagsAtEnd(before.c.thinking_buffer) :
          /\ p > 0
          /\ ~is_quote_char(before.c.thinking_buffer, p - 1)
          /\ p + Len(TAG_END) < Len(before.c.thinking_buffer)
    /\ ClosedAtToolUse(before, process_tool_use(before, tool_use))

\* The stream ended after such a ToolUse.
C20_Witness ==
    /\ pc = "done"
    /\ \E n \in 1 .. Len(inputs) :
          /\ inputs[n].type = "ToolUse"
          /\ ClosedBehindContent(Replayed(n - 1), inputs[n].tool_use)

\* ------------------------------------------------- the request converter

\* Number of messages in a request.
MaxMessages == 3

\* types.rs ContentBlock as deserialized from one item of a content array.
ContentBlock(block_type) ==
    [block_type |-> block_type, text |-> <<>>, thinking |-> <<>>, id |-> <<>>,
     name |-> <<>>, input |-> <<>>, tool_use_id |-> <<>>, content |-> <<>>,
     is_error |-> <<>>, source |-> <<>>]

StringContent(text) == [kind |-> "string", text |-> text, blocks |-> <<>>]

ArrayContent(blocks) == [kind |-> "array", text |-> <<>>, blocks |-> blocks]

TextBlock(text) == [ContentBlock("text") EXCEPT !.text = <<text>>]

ToolUseBlock(id, name) ==
    [ContentBlock("tool_use") EXCEPT !.id = <<id>>, !.name = <<name>>]

ToolResultBlock(tool_use_id, content, is_error) ==
    [ContentBlock("tool_result") EXCEPT !.tool_use_id = <<tool_use_id>>,
                                        !.content = <<content>>,
                                        !.is_error = is_error]

\* User messages: a plain string; one tool_result; text, an image and two
\* tool_results (one an error with array content); an unknown id followed by
\* a repeated id.
UserMessages ==
    {[role |-> "user", content |-> c] : c \in
        {StringContent(<<"q">>),
         ArrayContent(<<ToolResultBlock("t1", StringContent(<<"out">>), <<>>)>>),
         ArrayContent(<<TextBlock(<<"r">>),
                        [ContentBlock("image") EXCEPT
                            !.source = <<[media_type |-> "image/png", data |-> "AAAA"]>>],
                        ToolResultBlock("t1", StringContent(<<"out">>), <<FALSE>>),
                        ToolResultBlock("t2",
                            ArrayContent(<<[text |-> << <<"e1">> >>], [text |-> <<>>],
                                           [text |-> << <<"e2">> >>]>>),
                            <<TRUE>>)>>),
         ArrayContent(<<ToolResultBlock("t3", StringContent(<<"out">>), <<>>),
                        ToolResultBlock("t1", StringContent(<<"out">>), <<>>),
                        ToolResultBlock("t1", StringContent(<<"again">>), <<>>)>>)}}

\* Assistant messages: a string; the empty string; two tool_uses only; text
\* with a tool_use whose name differs in case; thinking, a block of an unknown
\* type and text; the empty array.
AssistantMessages ==
    {[role |-> "assistant", content |-> c] : c \in
        {StringContent(<<"a">>),
         StringContent(<<>>),
         ArrayContent(<<ToolUseBlock("t1", <<"R", "e", "a", "d">>),
                        ToolUseBlock("t2", <<"G", "r", "e", "p">>)>>),
         ArrayContent(<<TextBlock(<<"a">>),
                        ToolUseBlock("t2", <<"g", "r", "e", "p">>)>>),
         ArrayContent(<<[ContentBlock("thinking") EXCEPT !.thinking = << <<"th">> >>],
                        ContentBlock("redacted_thinking"),
                        TextBlock(<<"b">>)>>),
         ArrayContent(<<>>)}}

\* types.rs Tool of the request.
DeclaredTool(name) ==
    [name |-> name, description |-> <<"desc">>,
     input_schema |-> [type |-> "object", properties |-> <<"path">>,
                       required |-> <<"path">>, additionalProperties |-> FALSE]]

\* Requests without messages: a supported model with or without tools, a
\* system prompt and a thinking configuration; a system prompt without
\* entries; an unsupported model.
Requests ==
    {[NoRequest EXCEPT !.model = <<"S", "o", "n", "n", "e", "t", "-", "4">>,
                       !.tools = tools, !.system = prompt.system,
                       !.thinking = prompt.thinking] :
        tools \in {<<>>, << <<DeclaredTool(<<"R", "E", "A", "D">>),
                              DeclaredTool(<<"W", "r", "i", "t", "e">>)>> >>},
        prompt \in {[system |-> <<>>, thinking |-> <<>>],
                    [system |-> << <<[text |-> <<"sys">>]>> >>,
                     thinking |-> <<[thinking_type |-> "enabled",
                                     budget_tokens |-> 1024]>>],
                    [system |-> <<>>,
                     thinking |-> <<[thinking_type |-> "enabled",
                                     budget_tokens |-> 1024]>>]}}
    \cup {[NoRequest EXCEPT !.model = <<"o", "p", "u", "s", "-", "4", "-", "5">>,
                            !.system = << <<>> >>,
                            !.thinking = <<[thinking_type |-> "adaptive",
                                            budget_tokens |-> 0]>>],
          [NoRequest EXCEPT !.model = <<"g", "p", "t", "-", "4">>]}

InitConv ==
    /\ ServeIdle
    /\ FrameParserIdle
    /\ request \in Requests
    /\ conversion = <<>>
    /\ StreamIdle
    /\ ParserIdle

\* handlers.rs: the request body carries one more message.
AddMessage ==
    /\ conversion = <<>>
    /\ Len(request.messages) < MaxMessages
    /\ \E msg \in UserMessages \cup AssistantMessages :
          request' = [request EXCEPT !.messages = Append(@, msg)]
    /\ UNCHANGED <<parser, serve, conversion, ctx, sse, inputs, pc, decoder, returned, feeds, tamper,
                 pending>>

\* handlers.rs: the handler calls convert_request on the request.
ConvertRequest ==
    /\ conversion = <<>>
    /\ conversion' = <<convert_request(request)>>
    /\ UNCHANGED <<parser, serve, request, ctx, sse, inputs, pc, decoder, returned, feeds, tamper,
                 pending>>

NextConv == AddMessage \/ ConvertRequest

SpecConv == InitConv /\ [][NextConv]_vars

\* --------------------------------------------- claims on convert_request

Converted == conversion # <<>> /\ conversion[1].ok

Output == conversion[1].conversation_state

History == Output.history

CurrentToolResults == Output.current_message.context.tool_results

\* The (entry, position) pairs of the tool-uses of the assistant history entries.
HistoryToolUses ==
    UNION {{<<i, j>> : j \in DOMAIN History[i].tool_uses} :
              i \in {k \in DOMAIN History : History[k].role = "assistant"}}

\* The (entry, position) pairs of the tool-results of the output; entry
\* Len(History) + 1 is the current message.
OutputToolResults ==
    UNION {{<<i, j>> : j \in DOMAIN History[i].tool_results} :
              i \in {k \in DOMAIN History : History[k].role = "user"}}
    \cup {<<Len(History) + 1, j>> : j \in DOMAIN CurrentToolResults}

ToolUseAt(p) == History[p[1]].tool_uses[p[2]]

ToolResultAt(p) ==
    IF p[1] > Len(History)
    THEN CurrentToolResults[p[2]]
    ELSE History[p[1]].tool_results[p[2]]

\* The messages of the request that build_history reads.
HistoryMessages == SubSeq(request.messages, 1, history_end_index(request.messages))

\* The ids of the tool_use blocks of the assistant messages that reach history.
RequestToolUseIds ==
    UNION {{HistoryMessages[i].content.blocks[j].id[1] :
               j \in {n \in DOMAIN HistoryMessages[i].content.blocks :
                         /\ HistoryMessages[i].content.blocks[n].block_type = "tool_use"
                         /\ HistoryMessages[i].content.blocks[n].id # <<>>}} :
              i \in {k \in DOMAIN HistoryMessages :
                        HistoryMessages[k].role = "assistant"}}

\* C5: after convert_request every tool-use left in an assistant history
\* entry has a tool-result with the same tool_use_id in a history user entry
\* or in current_message.context.tool_results.
C5_RemainingToolUsesHaveResults ==
    Converted =>
        \A u \in HistoryToolUses :
            \E r \in OutputToolResults :
                ToolResultAt(r).tool_use_id = ToolUseAt(u).tool_use_id

\* A conversion that kept a tool-use answered by the current message and
\* removed a tool-use that nothing answers.
C5_Witness ==
    /\ Converted
    /\ \E u \in HistoryToolUses :
          \E j \in DOMAIN CurrentToolResults :
              CurrentToolResults[j].tool_use_id = ToolUseAt(u).tool_use_id
    /\ \E id \in RequestToolUseIds :
          \A u \in HistoryToolUses : ToolUseAt(u).tool_use_id # id

\* C6: after convert_request the tool-uses of assistant history and the
\* tool-results of the output correspond one to one: each tool-use id has
\* exactly one tool-result, which is in a later history user entry or in the
\* current message, and every tool-result has a tool-use with its id.
C6_ToolUsesAndResultsOneToOne ==
    Converted =>
        /\ \A u \in HistoryToolUses :
              /\ Cardinality({r \in OutputToolResults :
                     ToolResultAt(r).tool_use_id = ToolUseAt(u).tool_use_id}) = 1
              /\ \A r \in OutputToolResults :
                     ToolResultAt(r).tool_use_id = ToolUseAt(u).tool_use_id
                         => r[1] > u[1]
        /\ \A r \in OutputToolResults :
              \E u \in HistoryToolUses :
                  ToolUseAt(u).tool_use_id = ToolResultAt(r).tool_use_id

\* The tool_result blocks (with a tool_use_id) of the last message of the request.
CurrentResultBlocks ==
    SelectSeq(request.messages[Len(request.messages)].content.blocks,
              LAMBDA b : b.block_type = "tool_result" /\ b.tool_use_id # <<>>)

\* The k-th tool-result of the current message targets a history tool-use that
\* has no tool-result in history and that no earlier tool-result of the
\* message targets.
ShouldKeep(k) ==
    /\ \E u \in HistoryToolUses :
          ToolUseAt(u).tool_use_id = CurrentResultBlocks[k].tool_use_id[1]
    /\ \A r \in OutputToolResults :
          r[1] <= Len(History)
              => ToolResultAt(r).tool_use_id # CurrentResultBlocks[k].tool_use_id[1]
    /\ \A j \in 1 .. (k - 1) :
          CurrentResultBlocks[j].tool_use_id # CurrentResultBlocks[k].tool_use_id

KeptPositions ==
    SelectSeq([k \in DOMAIN CurrentResultBlocks |-> k], LAMBDA k : ShouldKeep(k))

\* C7: convert_request succeeds on every request with a supported model and a
\* message, and the tool-results it keeps for the current message are, in
\* order, exactly those whose id belongs to a history tool-use without a
\* history tool-result and not matched by an earlier result of the message.
C7_CurrentResultKeptIffUnpaired ==
    (conversion # <<>> /\ request.messages # <<>> /\ map_model(request.model) # <<>>) =>
        /\ conversion[1].ok
        /\ [n \in DOMAIN CurrentToolResults |-> CurrentToolResults[n].tool_use_id]
           = [n \in DOMAIN KeptPositions |->
                 CurrentResultBlocks[KeptPositions[n]].tool_use_id[1]]

\* A conversion that kept one tool-result of the current message and dropped
\* both a repetition of its id and a result for an unknown id.
C7_Witness ==
    /\ Converted
    /\ \E k \in DOMAIN CurrentResultBlocks :
          /\ ShouldKeep(k)
          /\ \E j \in DOMAIN CurrentResultBlocks :
                /\ j > k
                /\ CurrentResultBlocks[j].tool_use_id = CurrentResultBlocks[k].tool_use_id
          /\ \E j \in DOMAIN CurrentResultBlocks :
                \A id \in RequestToolUseIds : CurrentResultBlocks[j].tool_use_id # <<id>>
    /\ Len(CurrentToolResults) = 1

\* A conversion that dropped a tool-result of the current message because a
\* history user entry already answers its tool-use.
C7_WitnessPaired ==
    /\ Converted
    /\ \E k \in DOMAIN CurrentResultBlocks :
          /\ \E u \in HistoryToolUses :
                ToolUseAt(u).tool_use_id = CurrentResultBlocks[k].tool_use_id[1]
          /\ \E r \in OutputToolResults :
                /\ r[1] <= Len(History)
                /\ ToolResultAt(r).tool_use_id = CurrentResultBlocks[k].tool_use_id[1]
    /\ CurrentToolResults = <<>>

\* The positions of HistoryMessages where a run of user messages starts.
UserRunStarts ==
    {i \in DOMAIN HistoryMessages :
        /\ HistoryMessages[i].role = "user"
        /\ (i = 1 \/ HistoryMessages[i - 1].role = "assistant")}

\* C8: the history of every converted request has even length with a user
\* entry at every odd position and an assistant entry at every even position;
\* after the system pair it holds one pair per run of consecutive user
\* messages, and a run that no assistant message follows is paired with "OK".
C8_HistoryAlternates ==
    Converted =>
        /\ Len(History) % 2 = 0
        /\ \A i \in DOMAIN History :
              History[i].role = IF i % 2 = 1 THEN "user" ELSE "assistant"
        /\ Len(History)
           = Len(SystemHistory(request, Output.current_message.model_id,
                               generate_thinking_prefix(request)))
             + 2 * Cardinality(UserRunStarts)
        /\ (HistoryMessages # <<>> /\ HistoryMessages[Len(HistoryMessages)].role = "user")
              => History[Len(History)] = HistoryAssistantMessage(<<"OK">>, <<>>)

\* A conversion whose history merged two consecutive user messages and padded
\* them with "OK".
C8_Witness ==
    /\ Converted
    /\ Len(HistoryMessages) = 2
    /\ HistoryMessages[1].role = "user"
    /\ HistoryMessages[2].role = "user"
    /\ Len(History) = 2
    /\ History[2].content = <<"OK">>

\* C9: every assistant entry of the history of a converted request has a
\* non-empty content, whatever the shape of the assistant message it was
\* built from.
C9_AssistantContentNonEmpty ==
    Converted =>
        \A i \in DOMAIN History :
            History[i].role = "assistant" => History[i].content # <<>>

\* A declared (converted) tool or placeholder of the output matches the name
\* when case is ignored.
HasTool(tools, name) ==
    \E i \in DOMAIN tools : to_lowercase(tools[i].name) = to_lowercase(name)

\* C10: every tool name of a tool-use left in history has an entry in
\* current_message.context.tools equal to it when case is ignored, and a name
\* that no declared tool matches has a placeholder with the open object
\* schema after the declared tools.
C10_HistoryToolsDeclared ==
    Converted =>
        \A u \in HistoryToolUses :
            /\ HasTool(Output.current_message.context.tools, ToolUseAt(u).name)
            /\ ~HasTool(convert_tools(request.tools), ToolUseAt(u).name)
                  => \E i \in DOMAIN Output.current_message.context.tools :
                        /\ i > Len(convert_tools(request.tools))
                        /\ Output.current_message.context.tools[i]
                           = [name |-> ToolUseAt(u).name,
                              description |-> <<"Tool used in conversation history">>,
                              input_schema |->
                                  [type |-> "object", properties |-> <<>>,
                                   required |-> <<>>, additionalProperties |-> TRUE]]

\* A conversion with declared tools where one remaining tool-use matches a
\* declared tool only when case is ignored and another one needs a placeholder.
C10_Witness ==
    /\ Converted
    /\ request.tools # <<>>
    /\ \E u \in HistoryToolUses :
          /\ HasTool(convert_tools(request.tools), ToolUseAt(u).name)
          /\ \A i \in DOMAIN request.tools[1] :
                request.tools[1][i].name # ToolUseAt(u).name
    /\ \E u \in HistoryToolUses :
          ~HasTool(convert_tools(request.tools), ToolUseAt(u).name)

\* ----------------------------------- the decoder under feed, decode and resume

MaxFeeds == 2

EMPTY_FRAME == EncodeFrame(<<>>, <<>>)

\* One header (name "t", boolean true) and a one-byte payload.
EVENT_FRAME == EncodeFrame(<<1, 116, 0>>, <<123>>)

\* What the body stream delivers: whole frames, a frame in two parts, sixteen
\* zero bytes, a frame whose payload byte was damaged on the way, and a frame
\* behind one stray byte.
Chunks ==
    {EMPTY_FRAME,
     <<0>> \o EMPTY_FRAME,
     EVENT_FRAME,
     SubSeq(EMPTY_FRAME, 1, 12),
     SubSeq(EMPTY_FRAME, 13, 16),
     [i \in 1..16 |-> 0],
     [EVENT_FRAME EXCEPT ![16] = 124]}

\* The decoder new() builds, and two built by with_config.
Decoders == {NewEventStreamDecoder, with_config(2, 32), with_config(0, 32)}

InitDecoder ==
    /\ ServeIdle
    /\ FrameParserIdle
    /\ decoder \in Decoders
    /\ returned = NothingReturned
    /\ feeds = 0
    /\ tamper = NoTamper
    /\ StreamIdle
    /\ ConvIdle

\* A decoder method was called: the decoder changes and the call returns.
Called(op, call) ==
    /\ decoder' = call.d
    /\ returned' = [op |-> op, from |-> decoder.state, out |-> call.out]

\* handlers.rs: the next chunk of the body is fed.
Feed ==
    /\ feeds < MaxFeeds
    /\ \E data \in Chunks : Called("feed", feed(decoder, data))
    /\ feeds' = feeds + 1
    /\ UNCHANGED <<parser, serve, tamper, ctx, sse, inputs, pc, request, conversion, pending>>

Decode ==
    /\ Called("decode", decode(decoder))
    /\ UNCHANGED <<parser, serve, feeds, tamper, ctx, sse, inputs, pc, request, conversion, pending>>

\* handlers.rs: one step of the loop over decode_iter().
DecodeIterNext ==
    /\ Called("next", next(decoder))
    /\ UNCHANGED <<parser, serve, feeds, tamper, ctx, sse, inputs, pc, request, conversion, pending>>

TryResume ==
    /\ Called("try_resume", DecoderCall(try_resume(decoder), Unit))
    /\ UNCHANGED <<parser, serve, feeds, tamper, ctx, sse, inputs, pc, request, conversion, pending>>

Reset ==
    /\ Called("reset", DecoderCall(reset(decoder), Unit))
    /\ UNCHANGED <<parser, serve, feeds, tamper, ctx, sse, inputs, pc, request, conversion, pending>>

NextDecoder == Feed \/ Decode \/ DecodeIterNext \/ TryResume \/ Reset

SpecDecoder == InitDecoder /\ [][NextDecoder]_vars

\* ------------------------------------------------------ claims on the decoder

\* A decode or DecodeIter::next call in which FrameParser::parse failed.
ParseErrorStep ==
    /\ returned'.op \in {"decode", "next"}
    /\ returned'.from \notin {"Stopped"}
    /\ returned'.out.kind = "error"

\* C11 as stated: a Stopped decoder stays Stopped, whatever is called, until
\* try_resume is called.
C11_StoppedUntilTryResume ==
    [][decoder.state = "Stopped" /\ returned'.op # "try_resume"
          => decoder'.state = "Stopped"]_vars

\* C11, amended: a parse error that brings the consecutive-error count to
\* max_errors leaves the decoder Stopped; a Stopped decoder stays Stopped and
\* neither decode nor DecodeIter::next yields a frame, whatever is fed, until
\* try_resume or reset is called; every parse error adds one to the count, a
\* decoded frame sets it to zero and a needs-more-data result leaves it as it
\* was.
C11_StoppedUntilResumed ==
    [][/\ (decoder.state = "Stopped" /\ returned'.op \notin {"try_resume", "reset"})
             => /\ decoder'.state = "Stopped"
                /\ returned'.out.kind # "frame"
                /\ decoder'.frames_decoded = decoder.frames_decoded
       /\ ParseErrorStep
             => /\ decoder'.error_count = decoder.error_count + 1
                /\ (decoder'.error_count >= decoder.max_errors)
                       = (decoder'.state = "Stopped")
       /\ (returned'.op \in {"decode", "next"} /\ returned'.out.kind = "frame")
             => decoder'.error_count = 0
       /\ (returned'.op \in {"decode", "next"}
              /\ returned'.out.kind \in {"none", "end"})
             => decoder'.error_count = decoder.error_count]_vars

\* Data was fed to a decoder stopped by the default five errors in a row, and
\* a decode call on it returned the error again.
C11_Witness ==
    /\ decoder.state = "Stopped"
    /\ decoder.error_count = DEFAULT_MAX_ERRORS
    /\ returned.op = "decode"
    /\ returned.from = "Stopped"
    /\ returned.out.error = "TooManyErrors"
    /\ Len(decoder.buffer) > 16

\* C12 as stated: every decode call yields a frame and removes its bytes,
\* returns needs-more-data, or removes at least one byte from the buffer.
C12_DecodeProgressAsStated ==
    [][returned'.op = "decode"
          => \/ /\ returned'.out.kind = "frame"
                /\ Len(decoder'.buffer) < Len(decoder.buffer)
             \/ returned'.out.kind = "none"
             \/ Len(decoder'.buffer) < Len(decoder.buffer)]_vars

\* C12, amended: every decode call yields a frame and removes exactly that
\* frame's bytes, or returns needs-more-data with the buffer as it was, or
\* returns a parse error and removes exactly one byte, or returns TooManyErrors
\* with the buffer as it was and the decoder Stopped. The buffer never grows
\* and every call that is neither needs-more-data nor TooManyErrors shortens
\* it, so draining a finite buffer up to one of the two ends.
C12_DecodeProgress ==
    [][returned'.op = "decode"
          => \/ /\ returned'.out.kind = "frame"
                /\ returned'.out.consumed >= MIN_MESSAGE_SIZE
                /\ decoder'.buffer = advance(decoder.buffer, returned'.out.consumed)
                /\ Len(decoder'.buffer) = Len(decoder.buffer) - returned'.out.consumed
             \/ /\ returned'.out.kind = "none"
                /\ decoder'.buffer = decoder.buffer
             \/ /\ returned'.out.kind = "error"
                /\ returned'.out.error # "TooManyErrors"
                /\ decoder'.buffer = Tail(decoder.buffer)
                /\ decoder.buffer # <<>>
             \/ /\ returned'.out.kind = "error"
                /\ returned'.out.error = "TooManyErrors"
                /\ decoder'.buffer = decoder.buffer
                /\ decoder'.state = "Stopped"]_vars

\* A decode call failed on a frame with a damaged payload and skipped one byte.
C12_Witness ==
    /\ returned.op = "decode"
    /\ returned.out.error = "MessageCrcMismatch"
    /\ decoder.state = "Recovering"
    /\ decoder.bytes_skipped = 1
    /\ Len(decoder.buffer) = 19

\* ------------------------------------- FrameParser::parse on a damaged frame

\* The frame field byte i (from 1) of a frame of frame_len bytes with
\* header_len bytes of headers lies in.
FieldAt(i, header_len, frame_len) ==
    CASE i <= 4 -> "total_len"
      [] i <= 8 -> "header_len"
      [] i <= PRELUDE_SIZE -> "prelude_crc"
      [] i <= PRELUDE_SIZE + header_len -> "headers"
      [] i <= frame_len - 4 -> "payload"
      [] OTHER -> "message_crc"

FlipBit(byte, k) ==
    IF (byte \div (2 ^ k)) % 2 = 1 THEN byte - 2 ^ k ELSE byte + 2 ^ k

\* A well-formed frame at the head of the buffer, alone or followed by the
\* next frame.
InitTamper ==
    /\ ServeIdle
    /\ FrameParserIdle
    /\ \E frame \in {[bytes |-> EMPTY_FRAME, header_len |-> 0],
                     [bytes |-> EVENT_FRAME, header_len |-> 3]},
          following \in {<<>>, EMPTY_FRAME} :
          tamper = [buffer |-> frame.bytes \o following, field |-> "none",
                    outcome |-> <<>>, header_len |-> frame.header_len,
                    frame_len |-> Len(frame.bytes)]
    /\ decoder = NewEventStreamDecoder
    /\ returned = NothingReturned
    /\ feeds = 0
    /\ StreamIdle
    /\ ConvIdle

\* One bit of the frame, outside its final message CRC, is flipped.
FlipOneBit ==
    /\ tamper.field = "none"
    /\ tamper.outcome = <<>>
    /\ \E i \in 1..(tamper.frame_len - 4), k \in 0..7 :
          tamper' = [tamper EXCEPT
                        !.buffer[i] = FlipBit(@, k),
                        !.field = FieldAt(i, tamper.header_len, tamper.frame_len)]
    /\ UNCHANGED <<parser, serve, decoder, returned, feeds, ctx, sse, inputs, pc, request, conversion,
                 pending>>

ParseBuffer ==
    /\ tamper.outcome = <<>>
    /\ tamper' = [tamper EXCEPT !.outcome = <<parse(tamper.buffer)>>]
    /\ UNCHANGED <<parser, serve, decoder, returned, feeds, ctx, sse, inputs, pc, request, conversion,
                 pending>>

NextTamper == FlipOneBit \/ ParseBuffer

SpecTamper == InitTamper /\ [][NextTamper]_vars

\* C13: parsing a well-formed frame with one bit flipped outside the final
\* message CRC returns PreludeCrcMismatch or MessageCrcMismatch.
C13_FlippedBitIsCrcMismatch ==
    (tamper.field # "none" /\ tamper.outcome # <<>>)
        => /\ tamper.outcome[1].kind = "error"
           /\ tamper.outcome[1].error \in {"PreludeCrcMismatch", "MessageCrcMismatch"}


\* ------------------------------------------- the handlers' response streams

MaxPings == 2

\* ":message-type", ":event-type" and the values the event mapper dispatches on,
\* as the bytes a header carries.
MESSAGE_TYPE == <<58, 109, 101, 115, 115, 97, 103, 101, 45, 116, 121, 112, 101>>

EVENT_TYPE == <<58, 101, 118, 101, 110, 116, 45, 116, 121, 112, 101>>

\* "event"
EVENT == <<101, 118, 101, 110, 116>>

\* "assistantResponseEvent"
ASSISTANT_RESPONSE_EVENT ==
    <<97, 115, 115, 105, 115, 116, 97, 110, 116, 82, 101, 115, 112, 111, 110, 115,
      101, 69, 118, 101, 110, 116>>

\* "toolUseEvent"
TOOL_USE_EVENT == <<116, 111, 111, 108, 85, 115, 101, 69, 118, 101, 110, 116>>

\* "contextUsageEvent"
CONTEXT_USAGE_EVENT ==
    <<99, 111, 110, 116, 101, 120, 116, 85, 115, 97, 103, 101, 69, 118, 101, 110,
      116>>

\* {"content":"hi"}
TEXT_JSON ==
    <<123, 34, 99, 111, 110, 116, 101, 110, 116, 34, 58, 34, 104, 105, 34, 125>>

\* {"toolUseId":"A","name":"Read","input":"{}","stop":true}
TOOL_JSON ==
    <<123, 34, 116, 111, 111, 108, 85, 115, 101, 73, 100, 34, 58, 34, 65, 34, 44,
      34, 110, 97, 109, 101, 34, 58, 34, 82, 101, 97, 100, 34, 44, 34, 105, 110,
      112, 117, 116, 34, 58, 34, 123, 125, 34, 44, 34, 115, 116, 111, 112, 34, 58,
      116, 114, 117, 101, 125>>

\* {"contextUsagePercentage":100}
USAGE_JSON ==
    <<123, 34, 99, 111, 110, 116, 101, 120, 116, 85, 115, 97, 103, 101, 80, 101,
      114, 99, 101, 110, 116, 97, 103, 101, 34, 58, 49, 48, 48, 125>>

\* The bytes of a header whose value is a string (tag 7, two-byte length).
StringHeader(name, value) ==
    <<Len(name)>> \o name \o <<7, Len(value) \div 256, Len(value) % 256>> \o value

\* The frame of an upstream event of the given type.
EventFrame(event_type, payload) ==
    EncodeFrame(StringHeader(MESSAGE_TYPE, EVENT) \o StringHeader(EVENT_TYPE, event_type),
                payload)

TEXT_FRAME == EventFrame(ASSISTANT_RESPONSE_EVENT, TEXT_JSON)

TOOL_FRAME == EventFrame(TOOL_USE_EVENT, TOOL_JSON)

USAGE_FRAME == EventFrame(CONTEXT_USAGE_EVENT, USAGE_JSON)

\* Sixteen zero bytes: no frame starts in them.
GARBAGE == [i \in 1..16 |-> 0]

\* Headers::message_type / Headers::event_type: the string value of the named
\* header, <<>> when there is none.
header_string(frame, name) ==
    IF \E i \in 1 .. Len(frame.headers) :
          frame.headers[i].name = name /\ frame.headers[i].value_type = 7
    THEN SliceFrom(frame.headers[CHOOSE i \in 1 .. Len(frame.headers) :
                                    /\ frame.headers[i].name = name
                                    /\ frame.headers[i].value_type = 7].value, 2)
    ELSE <<>>

\* Event::from_frame. The event mapper is not among the sources; it dispatches
\* on :message-type and :event-type and reads the JSON payload, here the three
\* payloads an upstream frame of the model carries. Any other payload of a known
\* event type is a parse error, any other type an event the translator ignores.
from_frame(frame) ==
    LET Ok(event) == [ok |-> TRUE, event |-> event]
        Err == [ok |-> FALSE, event |-> KiroEvent("Unknown")]
        Typed(event_type, payload) ==
            CASE event_type = ASSISTANT_RESPONSE_EVENT ->
                    IF payload = TEXT_JSON
                    THEN Ok([KiroEvent("AssistantResponse") EXCEPT
                                !.content = <<"h", "i">>])
                    ELSE Err
              [] event_type = TOOL_USE_EVENT ->
                    IF payload = TOOL_JSON
                    THEN Ok([KiroEvent("ToolUse") EXCEPT
                                !.tool_use = [tool_use_id |-> "A", name |-> "Read",
                                              input |-> <<"{", "}">>, stop |-> TRUE]])
                    ELSE Err
              [] event_type = CONTEXT_USAGE_EVENT ->
                    IF payload = USAGE_JSON
                    THEN Ok([KiroEvent("ContextUsage") EXCEPT
                                !.context_usage_percentage = 100])
                    ELSE Err
              [] OTHER -> Ok(KiroEvent("Unknown"))
    IN IF header_string(frame, MESSAGE_TYPE) = EVENT
       THEN Typed(header_string(frame, EVENT_TYPE), frame.payload)
       ELSE Ok(KiroEvent("Unknown"))

\* create_ping_sse
PING == SseEvent("ping", NoIndex, "", <<>>)

\* The loop over decoder.decode_iter() of one chunk: call is what
\* DecodeIter::next returned, r the context with the events of the chunk so far,
\* seen the upstream events of the chunk. A decoding error, TooManyErrors
\* included, and a frame the event mapper rejects are logged and skipped.
RECURSIVE DecodeFrames(_, _, _)
DecodeFrames(r, seen, call) ==
    IF call.out.kind = "end" THEN [r |-> r, inputs |-> seen, d |-> call.d]
    ELSE IF call.out.kind = "frame" /\ from_frame(call.out.frame).ok
    THEN DecodeFrames(process_kiro_event(r, from_frame(call.out.frame).event),
                      Append(seen, from_frame(call.out.frame).event),
                      next(call.d))
    ELSE DecodeFrames(r, seen, next(call.d))

\* The Some(Ok(chunk)) arm: feed (an overflow is logged), then decode_iter.
OnChunk(c, d, chunk) == DecodeFrames(Call(c), <<>>, next(feed(d, chunk).d))

\* BufferedStreamContext is not among the sources. process_and_buffer runs the
\* StreamContext's event handling and keeps the events; finish_and_get_all_events
\* appends the final events and writes the input_tokens of the final
\* message_delta into message_start.
process_and_buffer(c, d, chunk) == OnChunk(c, d, chunk)

CorrectMessageStart(events, input_tokens) ==
    [i \in 1 .. Len(events) |->
        IF events[i].event = "message_start"
        THEN [events[i] EXCEPT !.input_tokens = input_tokens]
        ELSE events[i]]

\* A finish that sends the final events only.
MutFinalOnly(buffered, r) == r.events

finish_and_get_all_events(buffered, r) ==
    CorrectMessageStart(buffered \o r.events,
                        IF r.c.context_input_tokens # NoIndex
                        THEN r.c.context_input_tokens
                        ELSE r.c.input_tokens)

\* The chunks of the upstream bodies, by name, and the bytes of each.
ChunkBytes(chunk) ==
    CASE chunk = "text" -> TEXT_FRAME
      [] chunk = "tool" -> TOOL_FRAME
      [] chunk = "usage" -> USAGE_FRAME
      [] chunk = "garbage" -> GARBAGE

\* What the upstream body delivers before it ends or fails.
Bodies ==
    {<<>>,
     <<"text", "tool">>,
     <<"usage", "text">>,
     <<"garbage", "garbage", "garbage", "garbage", "garbage", "text">>}

\* handle_stream_request and its buffered counterpart have run: the context has
\* generated its initial events, which create_sse_stream sends first and the
\* buffered variant keeps. The interval's first tick completes at once.
\* `returned` is not kept here: it records the single calls of SpecDecoder.
InitServe ==
    /\ FrameParserIdle
    /\ \E variant \in {"stream", "buffered"}, thinking_enabled \in BOOLEAN,
          body \in Bodies, ending \in {"end", "error"} :
          /\ ctx = generate_initial_events(Call(NewStreamContext(1, thinking_enabled))).c
          /\ sse = generate_initial_events(
                       Call(NewStreamContext(1, thinking_enabled))).events
          /\ serve = [variant |-> variant, body |-> body, ending |-> ending,
                      arrived |-> FALSE, ping_due |-> TRUE, finished |-> FALSE,
                      closed |-> FALSE,
                      sent |-> IF variant = "stream" THEN <<sse>> ELSE <<>>]
    /\ inputs = <<>>
    /\ pc = "streaming"
    /\ ParserIdle
    /\ ConvIdle
    /\ pending = NoPending

Pings(sent) == Cardinality({i \in 1 .. Len(sent) : sent[i] = <<PING>>})

\* 25 seconds have passed since the last tick.
Tick ==
    /\ ~serve.closed
    /\ ~serve.ping_due
    /\ Pings(serve.sent) < MaxPings
    /\ serve' = [serve EXCEPT !.ping_due = TRUE]
    /\ UNCHANGED <<parser, ctx, sse, inputs, pc, request, conversion, decoder, returned,
                   feeds, tamper, pending>>

\* The body stream has its next item ready: a chunk, the end or a read error.
Arrive ==
    /\ ~serve.finished
    /\ ~serve.arrived
    /\ serve' = [serve EXCEPT !.arrived = TRUE]
    /\ UNCHANGED <<parser, ctx, sse, inputs, pc, request, conversion, decoder, returned,
                   feeds, tamper, pending>>

\* A chunk went through the decoder and the context.
Decoded(h) ==
    /\ ctx' = h.r.c
    /\ sse' = sse \o h.r.events
    /\ inputs' = inputs \o h.inputs
    /\ decoder' = h.d
    /\ feeds' = feeds + 1

\* generate_final_events has run.
Finished(r) ==
    /\ ctx' = r.c
    /\ sse' = sse \o r.events
    /\ pc' = "done"

\* The last batch was sent and the stream is left open.
MutStaysOpen(s, batch) == [s EXCEPT !.sent = Append(@, batch)]

\* The body ended or failed: the last batch goes out and the closure's state
\* carries finished = true.
EndOfBody(s, batch) ==
    [s EXCEPT !.arrived = FALSE, !.finished = TRUE, !.sent = Append(@, batch)]

\* tokio::select! without biased polls its branches in a random order: the
\* body branch is taken whenever the body stream is ready.
BodyBranch(s) == s.arrived

\* tokio::select! with `biased` polls the tick first.
MutUnbiased(s) == s.arrived

BiasedBodyBranch(s) == ~s.ping_due /\ s.arrived

\* create_sse_stream, Some(Ok(chunk)): the events of the chunk are one batch.
StreamChunk ==
    /\ serve.variant = "stream"
    /\ ~serve.finished
    /\ BodyBranch(serve)
    /\ serve.body # <<>>
    /\ Decoded(OnChunk(ctx, decoder, ChunkBytes(Head(serve.body))))
    /\ serve' = [serve EXCEPT
                    !.body = Tail(@), !.arrived = FALSE,
                    !.sent = Append(@, SubSeq(sse', Len(sse) + 1, Len(sse')))]
    /\ UNCHANGED <<parser, pc, request, conversion, returned, tamper, pending>>

\* create_sse_stream, Some(Err(e)) and None: the final events, finished = true.
StreamEnd ==
    /\ serve.variant = "stream"
    /\ ~serve.finished
    /\ BodyBranch(serve)
    /\ serve.body = <<>>
    /\ \E order \in IterationOrders(
                        FinalFlush(Call(ctx)).c.state_manager.active_blocks) :
          /\ Finished(generate_final_events(Call(ctx), order))
          /\ serve' = EndOfBody(serve, generate_final_events(Call(ctx), order).events)
    /\ UNCHANGED <<parser, inputs, request, conversion, decoder, returned, feeds, tamper,
                   pending>>

\* create_sse_stream, the tick branch.
StreamPing ==
    /\ serve.variant = "stream"
    /\ ~serve.finished
    /\ serve.ping_due
    /\ serve' = [serve EXCEPT !.ping_due = FALSE, !.sent = Append(@, <<PING>>)]
    /\ UNCHANGED <<parser, ctx, sse, inputs, pc, request, conversion, decoder, returned,
                   feeds, tamper, pending>>

\* create_buffered_sse_stream, the tick branch.
BufferedPing ==
    /\ serve.variant = "buffered"
    /\ ~serve.finished
    /\ serve.ping_due
    /\ serve' = [serve EXCEPT !.ping_due = FALSE, !.sent = Append(@, <<PING>>)]
    /\ UNCHANGED <<parser, ctx, sse, inputs, pc, request, conversion, decoder, returned,
                   feeds, tamper, pending>>

\* create_buffered_sse_stream, Some(Ok(chunk)): the events are kept and the loop
\* goes on without sending.
BufferedChunk ==
    /\ serve.variant = "buffered"
    /\ ~serve.finished
    /\ BiasedBodyBranch(serve)
    /\ serve.body # <<>>
    /\ Decoded(process_and_buffer(ctx, decoder, ChunkBytes(Head(serve.body))))
    /\ serve' = [serve EXCEPT !.body = Tail(@), !.arrived = FALSE]
    /\ UNCHANGED <<parser, pc, request, conversion, returned, tamper, pending>>

\* create_buffered_sse_stream, Some(Err(e)) and None: every event in one batch,
\* finished = true.
BufferedEnd ==
    /\ serve.variant = "buffered"
    /\ ~serve.finished
    /\ BiasedBodyBranch(serve)
    /\ serve.body = <<>>
    /\ \E order \in IterationOrders(
                        FinalFlush(Call(ctx)).c.state_manager.active_blocks) :
          /\ Finished(generate_final_events(Call(ctx), order))
          /\ serve' = EndOfBody(serve,
                                 finish_and_get_all_events(
                                     sse, generate_final_events(Call(ctx), order)))
    /\ UNCHANGED <<parser, inputs, request, conversion, decoder, returned, feeds, tamper,
                   pending>>

\* Both unfold closures: `if finished { return None; }`.
Close ==
    /\ serve.finished
    /\ ~serve.closed
    /\ serve' = [serve EXCEPT !.closed = TRUE]
    /\ UNCHANGED <<parser, ctx, sse, inputs, pc, request, conversion, decoder, returned,
                   feeds, tamper, pending>>

NextServe ==
    \/ Tick \/ Arrive
    \/ StreamChunk \/ StreamEnd \/ StreamPing
    \/ BufferedPing \/ BufferedChunk \/ BufferedEnd
    \/ Close

SpecServe == InitServe /\ [][NextServe]_vars

\* The response body is polled for as long as it yields: a branch of the
\* select that stays ready is taken, and a finished stream is polled once more.
FairServe ==
    /\ SpecServe
    /\ WF_vars(StreamEnd)
    /\ WF_vars(Close)


\* ------------------------------------------- claims on the response streams

OnlyPings(sent) == \A i \in 1 .. Len(sent) : sent[i] = <<PING>>

\* The events of a batch as the context produced them.
AsProduced(batch) ==
    [i \in 1 .. Len(batch) |->
        IF batch[i].event = "message_start"
        THEN [batch[i] EXCEPT !.input_tokens = -1]
        ELSE batch[i]]

\* A batch that is a whole response: everything the context produced, from
\* message_start to message_delta and message_stop.
WholeResponse(batch) ==
    /\ AsProduced(batch) = sse
    /\ Len(batch) >= 3
    /\ batch[1].event = "message_start"
    /\ batch[Len(batch) - 1].event = "message_delta"
    /\ batch[Len(batch)].event = "message_stop"

BufferedSent ==
    serve.variant = "buffered" =>
        IF serve.finished
        THEN /\ serve.sent # <<>>
             /\ OnlyPings(SubSeq(serve.sent, 1, Len(serve.sent) - 1))
             /\ WholeResponse(serve.sent[Len(serve.sent)])
        ELSE OnlyPings(serve.sent)

C23_TooManyErrorsTerminates ==
    serve.variant = "stream" /\ decoder.state = "Stopped" => serve.finished


\* The events of all batches, in the order sent.
RECURSIVE Flat(_)
Flat(sent) == IF sent = <<>> THEN <<>> ELSE Head(sent) \o Flat(Tail(sent))

Count(events, name) ==
    Cardinality({i \in 1 .. Len(events) : events[i].event = name})

\* A batch that ends with message_delta and message_stop.
EndsMessage(batch) ==
    /\ Len(batch) >= 2
    /\ batch[Len(batch) - 1].event = "message_delta"
    /\ batch[Len(batch)].event = "message_stop"

StreamSent ==
    serve.variant = "stream" =>
        IF serve.finished
        THEN /\ EndsMessage(serve.sent[Len(serve.sent)])
             /\ Count(Flat(serve.sent), "message_delta") = 1
             /\ Count(Flat(serve.sent), "message_stop") = 1
        ELSE /\ Count(Flat(serve.sent), "message_delta") = 0
             /\ Count(Flat(serve.sent), "message_stop") = 0

\* A step of create_sse_stream that sets finished: taken when the body stream
\* yields its end or a read error, for the first time.
FinishesAtEndOfBody ==
    serve.variant = "stream" /\ ~serve.finished /\ serve'.finished
        => serve.arrived /\ serve.body = <<>> /\ ~serve'.closed

\* A step of a finished stream sends nothing.
SilentOnceFinished ==
    serve.variant = "stream" /\ serve.finished
        => serve'.sent = serve.sent /\ serve'.finished

\* C24: the streaming response terminates when the upstream body ends or
\* fails. The final events are sent exactly once, by the step that sees the
\* first end of body or read error, as a batch ending with message_delta and
\* message_stop; nothing is sent after it; and once the body stream has its end
\* ready the stream is finished and closed.
C24_StreamTerminates ==
    /\ []StreamSent
    /\ [][FinishesAtEndOfBody /\ SilentOnceFinished]_vars
    /\ (serve.variant = "stream" /\ serve.arrived /\ serve.body = <<>>)
           ~> serve.closed

\* A streaming response closed after a read error, with a chunk batch and a
\* ping sent before the final events.
C24_Witness ==
    /\ serve.variant = "stream"
    /\ serve.closed
    /\ serve.ending = "error"
    /\ Len(serve.sent) >= 4
    /\ \E i \in 2 .. Len(serve.sent) - 1 : serve.sent[i] = <<PING>>
    /\ \E i \in 2 .. Len(serve.sent) - 1 :
          \E k \in 1 .. Len(serve.sent[i]) : serve.sent[i][k].kind = "text_delta"


\* A step that consumes what the body stream has ready: a chunk is fed, or the
\* end of the body finishes the stream.
ConsumesBody ==
    \/ feeds' # feeds
    \/ serve'.body # serve.body
    \/ serve'.finished # serve.finished

\* C30: in the buffered variant, while the ping timer is due no step consumes
\* anything from the upstream body: the next thing the loop does is send the
\* ping.
C30_PingBeforeChunk ==
    [][serve.variant = "buffered" /\ serve.ping_due => ~ConsumesBody]_vars

\* The buffered loop has consumed a chunk and now finds the timer due and the
\* next chunk ready at the same poll.
C30_Witness ==
    /\ serve.variant = "buffered"
    /\ serve.ping_due
    /\ serve.arrived
    /\ serve.body # <<>>
    /\ feeds >= 1


\* --------------------------------------- the handler on a request's model name

MaxParts == 3

\* The pieces a client's model name is made of.
NameParts ==
    {<<"c", "l", "a", "u", "d", "e">>,
     <<"-", "s", "o", "n", "n", "e", "t">>,
     <<"-", "O", "p", "u", "s">>,
     <<"-", "h", "a", "i", "k", "u">>,
     <<"-", "4", "-", "5">>,
     <<"-", "4", ".", "5">>,
     <<"-", "4", "-", "6">>,
     <<"-", "4", ".", "6">>,
     <<"g", "p", "t", "-", "4">>,
     <<"-", "t", "h", "i", "n", "k", "i", "n", "g">>}

THINKING_SUFFIX == <<"-", "t", "h", "i", "n", "k", "i", "n", "g">>

\* The names of at most n pieces.
RECURSIVE NamesOf(_)
NamesOf(n) ==
    IF n = 0 THEN {<<>>}
    ELSE NamesOf(n - 1) \cup {name \o part : name \in NamesOf(n - 1), part \in NameParts}

\* A request with one user message, with and without a thinking configuration
\* and an output configuration of the client's own.
NamedRequests ==
    {[NoRequest EXCEPT !.model = name,
                       !.messages = <<[role |-> "user",
                                       content |-> StringContent(<<"q">>)]>>,
                       !.thinking = config.thinking,
                       !.output_config = config.output_config] :
        name \in NamesOf(MaxParts),
        config \in {[thinking |-> <<>>, output_config |-> <<>>],
                    [thinking |-> <<[thinking_type |-> "enabled",
                                     budget_tokens |-> 1024]>>,
                     output_config |-> <<[effort |-> "low"]>>],
                    [thinking |-> <<[thinking_type |-> "adaptive",
                                     budget_tokens |-> 0]>>,
                     output_config |-> <<>>]}}

\* user_id values: a session UUID after an account, no session, a session
\* that is too short, 36 bytes without hyphens, and a session whose byte 36
\* falls inside a two-byte character.
UserIds ==
    {<<"u", "_", "_">> \o SESSION_PREFIX
         \o <<"0", "b", "4", "4", "4", "5", "e", "1", "-", "f", "5", "b", "e", "-", "4", "9", "e", "1">>
         \o <<"-", "8", "7", "c", "e", "-", "6", "2", "b", "b", "c", "2", "8", "a", "d", "7", "0", "5">>,
     <<"u", "s", "e", "r", "_", "1">>,
     SESSION_PREFIX \o <<"a", "b", "c">>,
     SESSION_PREFIX \o [k \in 1 .. 36 |-> "a"],
     SESSION_PREFIX \o [k \in 1 .. 35 |-> IF k % 9 = 0 THEN "-" ELSE "a"]
         \o <<"C3", "A9">>}

\* Requests with a metadata.user_id, with and without a supported model and
\* messages.
IdentifiedRequests ==
    {[NoRequest EXCEPT !.model = model, !.messages = messages,
                       !.metadata = <<[user_id |-> user_id]>>] :
        model \in {<<"c", "l", "a", "u", "d", "e", "-", "h", "a", "i", "k", "u">>,
                   <<"g", "p", "t", "-", "4">>},
        messages \in {<<>>, <<[role |-> "user", content |-> StringContent(<<"q">>)]>>},
        user_id \in {<<>>} \cup {<<id>> : id \in UserIds}}

InitRoute ==
    /\ request \in NamedRequests \cup IdentifiedRequests
    /\ conversion = <<>>
    /\ ctx = NewStreamContext(1, FALSE)
    /\ sse = <<>>
    /\ inputs = <<>>
    /\ pc = "received"
    /\ pending = NoPending
    /\ ParserIdle
    /\ ServeIdle
    /\ FrameParserIdle

\* post_messages: override_thinking_from_model_name(&mut payload).
OverrideThinking ==
    /\ pc = "received"
    /\ request' = override_thinking_from_model_name(request)
    /\ pc' = "overridden"
    /\ UNCHANGED <<parser, serve, conversion, ctx, sse, inputs, decoder, returned, feeds,
                   tamper, pending>>

\* post_messages: convert_request(&payload) on the payload as overridden.
ConvertOverridden ==
    /\ pc = "overridden"
    /\ ConvertRequest

NextRoute == OverrideThinking \/ ConvertOverridden

SpecRoute == InitRoute /\ [][NextRoute]_vars

\* ------------------------------------------------ claims on the model name

\* The routing as stated, on a lower-cased name: <<>> is unsupported.
Routed(model_lower) ==
    CASE contains(model_lower, <<"s", "o", "n", "n", "e", "t">>) ->
            <<"claude-sonnet-4.5">>
      [] /\ ~contains(model_lower, <<"s", "o", "n", "n", "e", "t">>)
         /\ contains(model_lower, <<"o", "p", "u", "s">>) ->
            IF \E version \in {<<"4", "-", "5">>, <<"4", ".", "5">>} :
                  contains(model_lower, version)
            THEN <<"claude-opus-4.5">>
            ELSE <<"claude-opus-4.6">>
      [] /\ ~contains(model_lower, <<"s", "o", "n", "n", "e", "t">>)
         /\ ~contains(model_lower, <<"o", "p", "u", "s">>)
         /\ contains(model_lower, <<"h", "a", "i", "k", "u">>) ->
            <<"claude-haiku-4.5">>
      [] OTHER -> <<>>

\* What convert_request made of the model name: the model id of the upstream
\* request, <<>> for UnsupportedModel.
ConvertedModel ==
    IF conversion[1].ok
    THEN <<conversion[1].conversation_state.current_message.model_id>>
    ELSE IF conversion[1].error = "UnsupportedModel" THEN <<>>
    ELSE <<"other">>

C27_ThinkingOverride ==
    [][pc = "received" /\ pc' = "overridden"
          => IF contains(to_lowercase(request.model),
                         <<"t", "h", "i", "n", "k", "i", "n", "g">>)
             THEN request' =
                      [request EXCEPT
                          !.thinking =
                              <<[thinking_type |->
                                     IF map_model(request.model)
                                            = <<"claude-opus-4.6">>
                                     THEN "adaptive" ELSE "enabled",
                                 budget_tokens |-> 20000]>>,
                          !.output_config =
                              IF map_model(request.model) = <<"claude-opus-4.6">>
                              THEN <<[effort |-> "high"]>>
                              ELSE @]
             ELSE request' = request]_vars

\* C28: convert_request fails with UnsupportedModel exactly when the model is
\* not routed, else with EmptyMessages exactly when there is no message, and
\* for every other request, whatever its metadata.user_id, it returns a
\* conversation state and does not abort.
C28_ConvertRequestTotal ==
    conversion # <<>> =>
        IF map_model(request.model) = <<>>
        THEN ~conversion[1].ok /\ conversion[1].error = "UnsupportedModel"
        ELSE IF request.messages = <<>>
        THEN ~conversion[1].ok /\ conversion[1].error = "EmptyMessages"
        ELSE conversion[1].ok

\* ------------------------------------------- the non-stream aggregator

\* handle_non_stream_request before its loop: stop_reason and has_tool_use.
NewAggregate == [stop_reason |-> "end_turn", has_tool_use |-> FALSE]

\* One turn of the loop over decode_iter, on a decoded event.
AggregateEvent(a, event) ==
    IF event.type = "ToolUse" THEN [a EXCEPT !.has_tool_use = TRUE]
    ELSE IF event.type = "ContextUsage" /\ event.context_usage_percentage >= 100
    THEN [a EXCEPT !.stop_reason = "model_context_window_exceeded"]
    ELSE IF event.type = "Exception"
            /\ event.exception_type = "ContentLengthExceededException"
    THEN [a EXCEPT !.stop_reason = "max_tokens"]
    ELSE a

RECURSIVE AggregateEvents(_, _)
AggregateEvents(a, events) ==
    IF events = <<>> THEN a
    ELSE AggregateEvents(AggregateEvent(a, Head(events)), Tail(events))

\* A selection that lets a tool use win over a recorded signal.
MutToolUseWins(a) ==
    IF a.has_tool_use THEN "tool_use" ELSE a.stop_reason

\* After the loop: tool_use replaces an end_turn that no event replaced.
AggregateStopReason(a) ==
    IF a.has_tool_use /\ a.stop_reason = "end_turn" THEN "tool_use" ELSE a.stop_reason

\* The stop_reason of the non-stream response to the decoded events.
NonStreamStopReason(events) == AggregateStopReason(AggregateEvents(NewAggregate, events))

ToolUseSeen == \E i \in 1 .. Len(inputs) : inputs[i].type = "ToolUse"

\* C29: for the same decoded events the non-stream aggregator returns the
\* stop_reason that the streaming translator sends in non-thinking mode: the
\* last recorded content signal if any, otherwise tool_use when a ToolUse
\* event was seen, otherwise end_turn.
C29_SameStopReason ==
    pc = "done" /\ ~ctx.thinking_enabled =>
        /\ NonStreamStopReason(inputs) = FinalStopReason(sse)
        /\ NonStreamStopReason(inputs) =
              IF LastRecorded # NoReason THEN LastRecorded
              ELSE IF ToolUseSeen THEN "tool_use"
              ELSE "end_turn"

\* A finished response without thinking whose events held a ToolUse and then
\* a ContentLengthExceededException: both handlers answer max_tokens.
C29_Witness ==
    /\ pc = "done"
    /\ ~ctx.thinking_enabled
    /\ ToolUseSeen
    /\ LastRecorded = "max_tokens"
    /\ NonStreamStopReason(inputs) = "max_tokens"
    /\ FinalStopReason(sse) = "max_tokens"

\* ------------------------------------- claims on feed, decode and try_resume

\* The bytes a feed step appended to the buffer.
Appended == SubSeq(decoder'.buffer, Len(decoder.buffer) + 1, Len(decoder'.buffer))

\* Every field of the decoder but the buffer and the state.
Counters(d) == [d EXCEPT !.buffer = <<>>, !.state = "Ready"]

\* feed rejects exactly the data that would take the buffer past
\* max_buffer_size.
RejectsOverflow ==
    \A data \in Chunks :
        (feed(decoder, data).out = ParseErr("BufferOverflow"))
            = (Len(decoder.buffer) + Len(data) > decoder.max_buffer_size)

FeedStep ==
    /\ returned'.op = "feed"
    /\ IF returned'.out.kind = "error"
       THEN /\ returned'.out.error = "BufferOverflow"
            /\ decoder' = decoder
            /\ \E data \in Chunks :
                  Len(decoder.buffer) + Len(data) > decoder.max_buffer_size
       ELSE /\ returned'.out = Unit
            /\ Len(decoder'.buffer) >= Len(decoder.buffer)
            /\ SubSeq(decoder'.buffer, 1, Len(decoder.buffer)) = decoder.buffer
            /\ Appended \in Chunks
            /\ Len(decoder'.buffer) <= decoder.max_buffer_size
            /\ decoder'.state = IF decoder.state = "Recovering" THEN "Ready"
                                ELSE decoder.state
            /\ Counters(decoder') = Counters(decoder)

\* C31: feed rejects its input with BufferOverflow exactly when the buffer
\* with the input would exceed max_buffer_size; a rejected feed changes
\* nothing, a successful feed appends the bytes and changes the state only from
\* Recovering to Ready; the buffer never exceeds max_buffer_size.
C31_FeedOverflow ==
    /\ [](RejectsOverflow /\ Len(decoder.buffer) <= decoder.max_buffer_size)
    /\ [][returned'.op = "feed" => FeedStep]_vars

\* A feed was rejected while the decoder was Recovering, and it still is.
C31_Witness ==
    /\ returned.op = "feed"
    /\ returned.from = "Recovering"
    /\ returned.out = ParseErr("BufferOverflow")
    /\ decoder.state = "Recovering"
    /\ decoder.buffer # <<>>

\* A decode or DecodeIter::next step that reaches FrameParser::parse, and the
\* parser reports an error.
ParserFails ==
    /\ returned'.op \in {"decode", "next"}
    /\ decoder.state # "Stopped"
    /\ returned'.op = "next" => decoder.state # "Recovering"
    /\ decoder.buffer # <<>>
    /\ parse(decoder.buffer).kind = "error"

\* C32: when the frame parser reports an error, decode adds one to the
\* consecutive-error counter; if the counter has reached max_errors the decoder
\* enters Stopped and returns TooManyErrors; otherwise it discards exactly one
\* leading byte, adds one to bytes_skipped, enters Recovering and returns the
\* parse error itself.
C32_ParseErrorHandling ==
    [][ParserFails =>
          /\ decoder'.error_count = decoder.error_count + 1
          /\ decoder'.frames_decoded = decoder.frames_decoded
          /\ IF decoder'.error_count >= decoder.max_errors
             THEN /\ decoder'.state = "Stopped"
                  /\ returned'.out = ParseErr("TooManyErrors")
             ELSE /\ decoder'.buffer = Tail(decoder.buffer)
                  /\ decoder'.bytes_skipped = decoder.bytes_skipped + 1
                  /\ decoder'.state = "Recovering"
                  /\ returned'.out = parse(decoder.buffer)]_vars

\* The second parse error in a row of a default decoder: two bytes were
\* skipped, the decoder is Recovering and the call returned the parse error.
C32_Witness ==
    /\ returned.op = "decode"
    /\ returned.out.kind = "error"
    /\ returned.out.error # "TooManyErrors"
    /\ decoder.state = "Recovering"
    /\ decoder.error_count = 2
    /\ decoder.bytes_skipped = 2

\* C33: while the decoder is Recovering neither decode nor DecodeIter::next
\* returns a frame, even when a complete valid frame is at the head of the
\* buffer, until a successful feed restores Ready.
C33_RecoveringYieldsNoFrame ==
    [][(decoder.state = "Recovering" /\ returned'.op \in {"decode", "next"})
          => returned'.out.kind # "frame"]_vars

\* C34: try_resume called in Stopped sets the consecutive-error counter to
\* zero and the state to Ready and leaves the buffer, frames_decoded and
\* bytes_skipped as they were; called in any other state it changes nothing.
C34_TryResume ==
    [][returned'.op = "try_resume" =>
          IF decoder.state = "Stopped"
          THEN /\ decoder'.error_count = 0
               /\ decoder'.state = "Ready"
               /\ decoder'.buffer = decoder.buffer
               /\ decoder'.frames_decoded = decoder.frames_decoded
               /\ decoder'.bytes_skipped = decoder.bytes_skipped
               /\ decoder'.max_errors = decoder.max_errors
               /\ decoder'.max_buffer_size = decoder.max_buffer_size
          ELSE decoder' = decoder]_vars

\* try_resume was called on a decoder that five errors in a row had stopped:
\* it is Ready with the damaged bytes still buffered and the skips counted.
C34_Witness ==
    /\ returned.op = "try_resume"
    /\ returned.from = "Stopped"
    /\ decoder.state = "Ready"
    /\ decoder.error_count = 0
    /\ decoder.buffer # <<>>
    /\ decoder.bytes_skipped = 4

\* --------------------------------------------- the stateful frame parser

MaxCalls == 3

WithCrc(bytes) == bytes \o crc32(bytes)

\* A prelude with a matching CRC for the two lengths.
Prelude(total_length, header_length) ==
    WithCrc(to_be_bytes(total_length) \o to_be_bytes(header_length))

\* A header of an undefined value type, and a string header cut short.
BAD_TYPE_HEADER == <<1, 116, 10>>

SHORT_HEADER == <<1, 116, 7, 0, 9, 120>>

\* The buffers given to the parser: whole frames with and without headers; a
\* frame cut inside and after its prelude; sixteen zero bytes; a prelude of
\* length 10 and one of length 16 MiB + 1 with matching CRCs; a prelude with a
\* damaged CRC, alone and with its whole frame; a damaged length under the
\* original CRC; a damaged message CRC; a header length past the payload
\* region; and frames whose header bytes do not decode.
ParserBuffers ==
    {EMPTY_FRAME,
     EVENT_FRAME,
     SubSeq(EVENT_FRAME, 1, 10),
     SubSeq(EVENT_FRAME, 1, 12),
     SubSeq(EVENT_FRAME, 1, 15),
     [i \in 1 .. 16 |-> 0],
     Prelude(10, 0) \o <<0, 0, 0, 0>>,
     Prelude(MAX_MESSAGE_SIZE + 1, 0),
     [SubSeq(EVENT_FRAME, 1, 12) EXCEPT ![12] = (@ + 1) % 256],
     [EVENT_FRAME EXCEPT ![12] = (@ + 1) % 256],
     [SubSeq(EVENT_FRAME, 1, 12) EXCEPT ![4] = 8],
     [EVENT_FRAME EXCEPT ![Len(EVENT_FRAME)] = (@ + 1) % 256],
     WithCrc(Prelude(MIN_MESSAGE_SIZE + 3, 4) \o <<1, 116, 0>>),
     EncodeFrame(BAD_TYPE_HEADER, <<>>),
     EncodeFrame(SHORT_HEADER, <<123>>)}

InitParser ==
    /\ parser = NoParser
    /\ ServeIdle
    /\ ParserIdle
    /\ StreamIdle
    /\ ConvIdle

\* parse_stateful is called on a buffer.
ParseStateful ==
    /\ parser.calls < MaxCalls
    /\ \E buffer \in ParserBuffers :
          parser' = [state |-> parse_stateful(parser.state, buffer).state,
                     buffer |-> buffer,
                     out |-> parse_stateful(parser.state, buffer).out,
                     calls |-> parser.calls + 1]
    /\ UNCHANGED <<serve, ctx, sse, inputs, pc, request, conversion, decoder, returned,
                   feeds, tamper, pending>>

\* FrameParser::reset is called; in AwaitingPrelude it changes nothing.
ResetParser ==
    /\ parser.state # AwaitingPrelude
    /\ parser' = [parser EXCEPT !.state = parser_reset(@)]
    /\ UNCHANGED <<serve, ctx, sse, inputs, pc, request, conversion, decoder, returned,
                   feeds, tamper, pending>>

NextParser == ParseStateful \/ ResetParser

SpecParser == InitParser /\ [][NextParser]_vars

\* --------------------------------------------- claims on the frame parsers

\* parse_stateful was called in `state`.
StatefulCall(state) == parser.state = state /\ parser'.calls = parser.calls + 1

PreludeCrcMatches(buffer) == crc32(SubSeq(buffer, 1, 8)) = SubSeq(buffer, 9, 12)

TotalLength(buffer) == from_be_bytes(SubSeq(buffer, 1, 4))

\* What the claim asks of a buffer of at least 12 bytes, of either parser.
PreludeVerdict(buffer, out) ==
    IF ~PreludeCrcMatches(buffer) THEN out = ParseErr("PreludeCrcMismatch")
    ELSE IF U32Less(TotalLength(buffer), U32(MIN_MESSAGE_SIZE))
    THEN out = ParseErr("MessageTooSmall")
    ELSE IF U32Less(U32(MAX_MESSAGE_SIZE), TotalLength(buffer))
    THEN out = ParseErr("MessageTooLarge")
    ELSE TRUE

\* C35: as soon as 12 bytes are available a prelude whose CRC does not match
\* is rejected with PreludeCrcMismatch, whatever its lengths and without
\* waiting for total_len bytes; a prelude with a matching CRC and a total_len
\* below 16 or above 16 MiB is rejected with MessageTooSmall or
\* MessageTooLarge. Asked of parse_stateful in AwaitingPrelude and of parse.
C35_PreludeCrcFirst ==
    [][(StatefulCall(AwaitingPrelude) /\ Len(parser'.buffer) >= PRELUDE_SIZE) =>
          /\ PreludeVerdict(parser'.buffer, parser'.out)
          /\ PreludeVerdict(parser'.buffer, parse(parser'.buffer))]_vars

\* C36: after parse_stateful returns any error the parser is in
\* AwaitingPrelude.
C36_ErrorResetsParser ==
    [][(parser'.calls = parser.calls + 1 /\ parser'.out.kind = "error")
          => parser'.state = AwaitingPrelude]_vars

\* C39: parse_stateful on a fresh parser and the stateless parse return the
\* same outcome for every buffer.
C39_ParsersAgree ==
    [][StatefulCall(AwaitingPrelude) => parser'.out = parse(parser'.buffer)]_vars

\* ------------------------------------------ claims on the thinking prefix

\* Thinking is requested: mode enabled or adaptive.
ThinkingRequested ==
    /\ request.thinking # <<>>
    /\ request.thinking[1].thinking_type \in {"enabled", "adaptive"}

\* The texts of the system segments joined; empty when no system is given.
SystemContent ==
    IF request.system = <<>> THEN <<>>
    ELSE join([i \in DOMAIN request.system[1] |-> request.system[1][i].text], <<"\n">>)

\* The history begins with the synthetic pair and its user content starts
\* with the thinking tags of the request.
BeginsWithThinkingPair ==
    /\ Len(History) >= 2
    /\ History[1].role = "user"
    /\ starts_with(History[1].content, generate_thinking_prefix(request)[1])
    /\ History[2] = HistoryAssistantMessage(<<"I will follow these instructions.">>, <<>>)

\* C37: whenever thinking is requested and the system content holds no
\* <thinking_mode> tag, the history convert_request produces begins with the
\* synthetic (user, assistant) pair whose user content starts with the thinking
\* tags, with and without a system prompt.
C37_ThinkingPairFirst ==
    (Converted /\ ThinkingRequested /\ ~contains(SystemContent, <<"<thinking_mode>">>))
        => BeginsWithThinkingPair

\* ------------------------------------------- claims on the byte accounting

\* The bytes of the frame a step yielded, and the bytes a step accepted.
YieldedBytes == IF returned'.out.kind = "frame" THEN returned'.out.consumed ELSE 0

AcceptedBytes ==
    IF returned'.op = "feed" /\ returned'.out = Unit THEN Len(Appended) ELSE 0

\* A decode or DecodeIter::next call that asked for more data.
NeedsMoreDataStep ==
    /\ returned'.op \in {"decode", "next"}
    /\ returned'.out.kind \in {"none", "end"}

\* C38: between resets every step keeps the bytes accounted for (the bytes
\* accepted by feed are the bytes of the frames yielded, the bytes skipped and
\* the bytes buffered), frames_decoded and bytes_skipped never decrease, and a
\* decode that needs more data changes neither the buffer nor a counter.
C38_BytesAccounted ==
    [][returned'.op # "reset" =>
          /\ Len(decoder'.buffer) + decoder'.bytes_skipped + YieldedBytes
                 = Len(decoder.buffer) + decoder.bytes_skipped + AcceptedBytes
          /\ returned'.op = "feed" => Appended \in Chunks \cup {<<>>}
          /\ decoder'.frames_decoded
                 = decoder.frames_decoded + (IF YieldedBytes > 0 THEN 1 ELSE 0)
          /\ decoder'.bytes_skipped >= decoder.bytes_skipped
          /\ NeedsMoreDataStep =>
                 /\ decoder'.buffer = decoder.buffer
                 /\ Counters(decoder') = Counters(decoder)]_vars

\* A frame was yielded from behind a skipped byte and left another frame's
\* bytes in the buffer: 33 bytes were fed, 16 yielded, 1 skipped, 16 buffered.
C38_Witness ==
    /\ returned.out.kind = "frame"
    /\ decoder.frames_decoded = 1
    /\ decoder.bytes_skipped = 1
    /\ Len(decoder.buffer) = 16
    /\ feeds = 2

\* --------------------------------------------- claims on the block indices

IsStart(e) == e.event = "content_block_start"

\* The content_block_start events of the emitted sequence, in emission order.
BlockStarts(log) == SelectSeq(log, IsStart)

\* The starts carry 0, 1, 2, ... in emission order, and no tool_use_id is
\* given to two blocks.
IndicesInOrder ==
    /\ \A k \in 1 .. Len(BlockStarts(sse)) : BlockStarts(sse)[k].index = k - 1
    /\ \A j, k \in 1 .. Len(BlockStarts(sse)) :
          (BlockStarts(sse)[j].kind = "tool_use" /\ BlockStarts(sse)[k].kind = "tool_use"
              /\ BlockStarts(sse)[j].id = BlockStarts(sse)[k].id) => j = k

\* The events a step emitted.
Emitted == SubSeq(sse', Len(sse) + 1, Len(sse'))

\* The step processed a ToolUse event: the start and the input deltas it
\* emitted carry the index of the block started for the event's tool_use_id.
FragmentsShareIndex ==
    (Len(inputs') = Len(inputs) + 1 /\ inputs'[Len(inputs')].type = "ToolUse") =>
        \A i \in 1 .. Len(Emitted) :
            (Emitted[i].kind \in {"tool_use", "input_json_delta"}) =>
                \E k \in 1 .. Len(BlockStarts(sse')) :
                    /\ BlockStarts(sse')[k].kind = "tool_use"
                    /\ BlockStarts(sse')[k].id = inputs'[Len(inputs')].tool_use.tool_use_id
                    /\ BlockStarts(sse')[k].index = Emitted[i].index

\* C40: the content_block_start events of one response carry the indices 0,
\* 1, 2, ... in emission order, so that each new block gets the next unused
\* index, none is skipped and none is used for two blocks; all fragments of
\* one tool_use_id go to the one index of its block.
C40_BlockIndices == []IndicesInOrder /\ [][FragmentsShareIndex]_vars

\* A finished response with at least three blocks in which one tool_use_id
\* got two fragments with input.
C40_Witness ==
    /\ pc = "done"
    /\ Len(BlockStarts(sse)) >= 3
    /\ \E i, j \in 1 .. Len(inputs) :
          /\ i < j
          /\ inputs[i].type = "ToolUse" /\ inputs[i].tool_use.input # <<>>
          /\ inputs[j].type = "ToolUse" /\ inputs[j].tool_use.input # <<>>
          /\ inputs[i].tool_use.tool_use_id = inputs[j].tool_use.tool_use_id
    /\ Cardinality({i \in 1 .. Len(sse) : sse[i].kind = "input_json_delta"}) >= 2

====
